---------------------------- MODULE FileTransfer ----------------------------
(***************************************************************************)
(* Arrays go to files and come back.  saveTo makes one gathering write;    *)
(* LArray.loadFrom drives an LArrayBuilder: it gives a size hint and calls *)
(* transferTo until the position reaches the length of the file, and each  *)
(* transferTo calls write of the builder for every chunk it reads.  A      *)
(* client that transfers no file may use a builder as it likes.            *)
(***************************************************************************)
EXTENDS LArrayBuilder

CONSTANTS FileLength,   \* lengths of files made by other programs
          SaveLength,   \* lengths in bytes of arrays that are saved
          MaxTransfer,  \* transferTo moves at most Integer.MAX_VALUE bytes
          TransferSize, \* ... in chunks of at most so many bytes
          MaxWrite      \* the most bytes one write to a file takes

ASSUME TransferAssumption == /\ FileLength \subseteq Nat /\ SaveLength \subseteq Nat
                             /\ MaxTransfer \in Nat \ {0}
                             /\ TransferSize \in Nat \ {0}
                             /\ MaxWrite \in Nat \ {0}

VARIABLES step,     \* what the loading client does next
          fileSize, \* length of the file
          saved,    \* length of the array that was saved to it
          pos,      \* LArray.loadFrom: bytes transferred in finished calls
          moved     \* bytes moved by the current call of transferTo

tvars == <<step, fileSize, saved, pos, moved>>
allvars == <<vars, tvars>>

Smaller(a, b) == IF a < b THEN a ELSE b

-----------------------------------------------------------------------------
TransferInit == /\ Init
                /\ step = "file"
                /\ fileSize = 0
                /\ saved = 0
                /\ pos = 0
                /\ moved = 0

\* The client has no file; it adds elements, sequences and buffers.
UseBuilder ==
    /\ step \in {"file", "client"}
    /\ Next
    /\ step' = "client"
    /\ UNCHANGED <<fileSize, saved, pos, moved>>

\* The file was written by somebody else.
Existing(n) ==
    /\ step = "file"
    /\ fileSize' = n
    /\ saved' = n
    /\ step' = "hint"
    /\ UNCHANGED <<vars, pos, moved>>

\* saveTo: one write of all buffers, its return value is not looked at.
SaveTo(n) ==
    /\ step = "file"
    /\ fileSize' = Smaller(n, MaxWrite)
    /\ saved' = n
    /\ step' = "hint"
    /\ UNCHANGED <<vars, pos, moved>>

\* Faulty variant: the hint is left out, it is only a hint.
HintNothing ==
    /\ step = "hint"
    /\ step' = "transfer"
    /\ UNCHANGED <<vars, fileSize, saved, pos, moved>>

\* LArray.loadFrom: newBuilder and sizeHint
HintSize ==
    /\ step = "hint"
    /\ LET n == fileSize \div elementSize
       IN  IF capacity < n THEN SizeHint(n) ELSE UNCHANGED vars
    /\ step' = "transfer"
    /\ UNCHANGED <<fileSize, saved, pos, moved>>

\* Faulty variant: a short transfer is taken for a whole one.
TransferOnce ==
    /\ step = "transfer"
    /\ pos < fileSize
    /\ moved > 0
    /\ pos' = fileSize
    /\ moved' = 0
    /\ UNCHANGED <<vars, step, fileSize, saved>>

\* transferTo returns: after all the bytes asked for, or earlier.
TransferReturns ==
    /\ step = "transfer"
    /\ pos < fileSize
    /\ moved > 0
    /\ pos' = pos + moved
    /\ moved' = 0
    /\ UNCHANGED <<vars, step, fileSize, saved>>

\* Faulty variant: asks for fileSize bytes from any position on.
ChunksPastEnd(len) ==
    /\ step = "transfer" /\ pos < fileSize
    /\ len <= Smaller(TransferSize, Smaller(fileSize, MaxTransfer) - moved)
    /\ Write(len, TRUE)
    /\ moved' = moved + len
    /\ UNCHANGED <<step, fileSize, saved, pos>>

\* transferTo(pos, fileSize - pos, builder) reads a chunk and writes it.
Chunks(len) ==
    /\ step = "transfer"
    /\ len <= Smaller(TransferSize, Smaller(fileSize - pos, MaxTransfer) - moved)
    /\ Write(len, TRUE)
    /\ moved' = moved + len
    /\ UNCHANGED <<step, fileSize, saved, pos>>

\* The loop is over: b.result()
LoadResult ==
    /\ step = "transfer"
    /\ pos >= fileSize
    /\ Result
    /\ step' = "done"
    /\ UNCHANGED <<fileSize, saved, pos, moved>>

Done == step = "done" /\ UNCHANGED allvars

TransferNext == \/ UseBuilder
                \/ \E n \in FileLength : Existing(n)
                \/ \E n \in SaveLength : SaveTo(n)
                \/ HintSize
                \/ \E len \in 1 .. TransferSize : Chunks(len)
                \/ TransferReturns \/ LoadResult \/ Done

TransferSpec == TransferInit /\ [][TransferNext]_allvars

-----------------------------------------------------------------------------
TransferTypeOK == /\ TypeOK
                  /\ step \in {"client", "file", "hint", "transfer", "done"}
                  /\ pos \in 0 .. fileSize /\ moved \in 0 .. fileSize

\* However the file arrives - in calls of at most MaxTransfer bytes that may
\* end in the middle of an element, in chunks, cut short - the array that
\* loadFrom returns has all elements of the file at their places; and an
\* array that one write could take comes back whole.
LoadedIsFile ==
    step = "done" =>
        /\ \E a \in results : /\ mem[a].size = fileSize - (fileSize % elementSize)
                              /\ mem[a].good = 0 .. mem[a].size - 1
        /\ saved <= MaxWrite => fileSize = saved
=============================================================================
