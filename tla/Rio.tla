--------------------------------- MODULE Rio ---------------------------------
(***************************************************************************)
(* The buffered reads and robust writes of the CS:APP rio package, as the  *)
(* programs of prj2 use them.  A byte is a record whose field ch is what   *)
(* the byte is; a rio_t is the sequence of its unread bytes, so that       *)
(* rio_cnt is its length; a connection carries a sequence of bytes in each *)
(* direction.  A call interrupted by a signal (EINTR) starts again and     *)
(* changes nothing.                                                        *)
(***************************************************************************)
EXTENDS Integers, Sequences, FiniteSetsExt

CONSTANTS MAXLINE,      \* bytes of an answer, and of a line with its '\0'
          RIO_BUFSIZE,  \* bytes a rio_t holds
          Capacity      \* bytes a socket takes before write blocks

ASSUME RioAssumption == /\ MAXLINE \in Nat \ {0, 1}
                        /\ RIO_BUFSIZE \in Nat \ {0}
                        /\ Capacity \in Nat \ {0}

NewLine == "nl"
First(n, s) == SubSeq(s, 1, n)
Behind(n, s) == SubSeq(s, n + 1, Len(s))

\* rio_readinitb
EmptyRio == <<>>

\* What the loop of rio_read takes from the socket: nothing before the buffer
\* is empty, then what read(2) finds.  It blocks when there is neither.
Refill(rio, stream) == IF rio # <<>> THEN 0 ELSE Min({RIO_BUFSIZE, Len(stream)})
Blocks(rio, stream) == rio = <<>> /\ stream = <<>>

\* How many bytes of rio rio_readnb copies, having got `got' of n bytes.
Copies(got, rio, n) == Min({n - Len(got), Len(rio)})

\* Mutant: the line may fill the buffer and leave no room for '\0'.
LineRoomTight(line) == MAXLINE - Len(line)

\* rio_readlineb(.., MAXLINE) stops in front of the byte for '\0'.
LineRoom(line) == MAXLINE - 1 - Len(line)

\* How many bytes of rio rio_readlineb copies: up to and with a newline.
LineCopies(line, rio) ==
    Min({LineRoom(line), Len(rio)} \cup {i \in 1..Len(rio) : rio[i].ch = NewLine})
LineDone(line) ==
    LineRoom(line) = 0 \/ (line # <<>> /\ line[Len(line)].ch = NewLine)

\* write(2) in rio_writen: as much as there is room for.
Writable(out, stream) == Min({Len(out), Capacity - Len(stream)})
=============================================================================
