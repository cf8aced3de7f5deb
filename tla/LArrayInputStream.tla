------------------------- MODULE LArrayInputStream -------------------------
(***************************************************************************)
(* RawLArrayInputStream: an InputStream over the bytes of an array, here   *)
(* one that LArray.loadFrom returned, so that a file goes all the way      *)
(* through builder, array and stream.                                      *)
(***************************************************************************)
EXTENDS FileTransfer

CONSTANTS ReadLength, \* lengths that clients ask for
          WideStreams, \* clients make streams of arrays of wider elements
          ReadsBlindly \* clients call read() without asking for available

ASSUME StreamAssumption == /\ ReadLength \subseteq Nat \ {0}
                           /\ WideStreams \in BOOLEAN /\ ReadsBlindly \in BOOLEAN

VARIABLES array,     \* what the stream reads, or None
          next,      \* cursor
          mark,
          delivered, \* positions in the file whose bytes clients were given
          ended      \* the last read answered -1

svars == <<array, next, mark, delivered, ended>>
everything == <<allvars, svars>>

ByteLength == mem[array].size
\* size of the array counts elements, cursor bytes.
ArraySize == ByteLength \div elementSize

StreamInit == /\ TransferInit
              /\ array = None
              /\ next = 0 /\ mark = 0
              /\ delivered = {}
              /\ ended = FALSE

Transfer == array = None /\ TransferNext /\ UNCHANGED svars

\* LArrayInputStream(array)
OpenStream(a) ==
    /\ step = "done" /\ array = None
    /\ a \in results
    /\ WideStreams \/ elementSize = 1
    /\ array' = a
    /\ UNCHANGED <<allvars, next, mark, delivered, ended>>

\* What clients get when they read the n bytes from the cursor on
Deliver(n) ==
    /\ delivered' = delivered \cup ((next .. next + n - 1) \cap mem[array].good)
    /\ next' = next + n
    /\ ended' = FALSE

\* Faulty variant: an end that a read would reach is taken for reached.
AtEndTooEarly == next + 1 >= ArraySize
AtEnd == next >= ArraySize

\* Faulty variant: as much as was asked for.
ReadLenAsked(len) == len
ReadLen(len) == Smaller(len, ByteLength - next)

\* read(b, offset, len)
Read(len) ==
    /\ array # None
    /\ IF AtEnd THEN ended' = TRUE /\ UNCHANGED <<next, delivered>>
       ELSE Deliver(ReadLen(len))
    /\ UNCHANGED <<allvars, array, mark>>

\* read(), which looks at nothing
ReadOne ==
    /\ array # None
    /\ ReadsBlindly \/ ArraySize - next > 0
    /\ next <= ByteLength
    /\ Deliver(1)
    /\ UNCHANGED <<allvars, array, mark>>

MarkHere == /\ array # None
            /\ mark' = next
            /\ UNCHANGED <<allvars, array, next, delivered, ended>>

BackToMark == /\ array # None
              /\ next' = mark
              /\ ended' = FALSE
              /\ UNCHANGED <<allvars, array, mark, delivered>>

StreamNext == \/ Transfer
              \/ \E a \in Array : OpenStream(a)
              \/ \E len \in ReadLength : Read(len)
              \/ ReadOne \/ MarkHere \/ BackToMark

StreamSpec == StreamInit /\ [][StreamNext]_everything

-----------------------------------------------------------------------------
StreamTypeOK == /\ TransferTypeOK
                /\ array \in Array \cup {None}
                /\ next \in Nat /\ mark \in Nat
                /\ delivered \subseteq Nat
                /\ ended \in BOOLEAN

\* The stream reads the array and nothing behind it.
ReadsStayInside == array # None => next <= ByteLength /\ mark <= ByteLength

\* A stream ends when all of the file was delivered, however the file came
\* into the array and however the client read, marked and went back.
EndMeansEnd == ended => delivered = 0 .. fileSize - 1
=============================================================================
