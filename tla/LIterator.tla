----------------------------- MODULE LIterator -----------------------------
(***************************************************************************)
(* LIterator: the lazy iterators that keep a state of their own, made from *)
(* the iterator of an array.  partition and span return two iterators that *)
(* share one buffered iterator and leave elements for each other in        *)
(* queues; filter and takeWhile look one element ahead; slice counts.      *)
(* Clients interleave the calls of the two as they like; they call next    *)
(* only when hasNext said that there is more.                              *)
(*                                                                         *)
(* An element is named by its position in the source, and what a predicate *)
(* says of it is the source's value there.                                 *)
(***************************************************************************)
EXTENDS Integers, SequencesExt

CONSTANT LateLeading \* clients go back to the first iterator of span after
                     \* they took an element from the second
ASSUME LateAssumption == LateLeading \in BOOLEAN

VARIABLES kind,   \* the method called, or none
          source, \* what the predicate says of each element of the source
          from, until, \* arguments of slice
          it,     \* the iterators' state
          out,    \* the elements each of the two delivered
          says    \* what its hasNext last answered, "?" after a next

ivars == <<kind, source, from, until, it, out, says>>

Kind == {"partition", "span", "filter", "takeWhile", "slice"}
Side == {"first", "second"} \* (l, r), (leading, trailing), or only the first
Other(c) == IF c = "first" THEN "second" ELSE "first"
Used == IF kind \in {"partition", "span"} THEN Side ELSE {"first"}

N == Len(source)
\* The predicate of iterator c holds for the element at position i.
Fits(c, i) == source[i + 1] = (c = "first")

\* The positions from a to b, in order
Run(a, b) == [k \in 1 .. b - a + 1 |-> a + k - 1]
\* The first position in P that is not before i, or the end
FirstOf(P, i) == Min({p \in P : p >= i} \cup {Max({i, N})})

\* index: of the source's iterator; hdDefined: the element before index is
\* held back as head; lookahead: the queues of partition and span; ended:
\* takeWhile met its end, or the trailing iterator of span was used;
\* remaining: of slice.
Fresh == [index |-> 0, hdDefined |-> FALSE, lookahead |-> [c \in Side |-> <<>>],
          ended |-> FALSE, remaining |-> 0]

-----------------------------------------------------------------------------
(* The source: next() of the array's iterator does not look at the end.    *)

\* The position that next() of the buffered iterator delivers.
Cursor(s) == IF s.hdDefined THEN s.index - 1 ELSE s.index

\* Faulty variant: forgets the element it holds back.
SourceHasNext(s) == s.index < N
\* hasNext of the buffered iterator
BufferedHasNext(s) == s.hdDefined \/ s.index < N

\* next() of the buffered iterator
Consumed(s) == [s EXCEPT !.index = Cursor(s) + 1, !.hdDefined = FALSE]

\* A loop that takes elements until it has the one at position stop as head,
\* or reached the end.
AdvancedTo(stop, s) ==
    IF stop < N THEN [s EXCEPT !.index = stop + 1, !.hdDefined = TRUE]
    ELSE [s EXCEPT !.index = stop, !.hdDefined = FALSE]

\* Such a loop that leaves the elements it takes in the queue of iterator c.
QueuedTo(stop, c, s) ==
    [AdvancedTo(stop, s) EXCEPT !.lookahead[c] = @ \o Run(Cursor(s), stop - 1)]

-----------------------------------------------------------------------------
(* What hasNext does before it answers                                     *)

\* Faulty variant: drops what is not for c, as filter does.
SkipAndDrop(c, s) == AdvancedTo(FirstOf({i \in 0 .. N - 1 : Fits(c, i)}, Cursor(s)), s)

\* partition: skip() leaves what is not for c to the other one.
Skip(c, s) == QueuedTo(FirstOf({i \in 0 .. N - 1 : Fits(c, i)}, Cursor(s)), Other(c), s)

\* span: advance() queues the next element if it fits.
Advance(s) ==
    IF ~BufferedHasNext(s) THEN s
    ELSE IF Fits("first", Cursor(s))
         THEN [Consumed(s) EXCEPT !.lookahead["first"] = Append(@, Cursor(s))]
         ELSE AdvancedTo(Cursor(s), s)

\* span: the first use of the trailing iterator calls finish().
Finish(s) ==
    IF s.ended THEN s
    ELSE [QueuedTo(FirstOf({i \in 0 .. N - 1 : ~Fits("first", i)}, Cursor(s)), "first", s)
             EXCEPT !.ended = TRUE]

LookFilter(s) == AdvancedTo(FirstOf({i \in 0 .. N - 1 : Fits("first", i)}, Cursor(s)), s)

\* takeWhile takes the first element that does not fit, and drops it.
LookWhile(s) ==
    IF s.hdDefined \/ s.ended \/ s.index >= N THEN s
    ELSE [s EXCEPT !.index = @ + 1, !.hdDefined = Fits("first", s.index),
                   !.ended = ~Fits("first", s.index)]

\* The state after hasNext of iterator c
Looked(c) ==
    CASE kind = "partition" -> IF it.lookahead[c] # <<>> THEN it ELSE Skip(c, it)
      [] kind = "span" -> IF c = "second" THEN Finish(it)
                          ELSE IF it.lookahead[c] # <<>> THEN it ELSE Advance(it)
      [] kind = "filter" -> LookFilter(it)
      [] kind = "takeWhile" -> LookWhile(it)
      [] kind = "slice" -> it

\* Its answer in that state
HasNext(c, s) ==
    CASE kind = "partition" -> s.lookahead[c] # <<>> \/ BufferedHasNext(s)
      [] kind = "span" -> IF c = "second" THEN BufferedHasNext(s) ELSE s.lookahead[c] # <<>>
      [] kind \in {"filter", "takeWhile"} -> s.hdDefined
      [] kind = "slice" -> s.remaining > 0 /\ s.index < N

-----------------------------------------------------------------------------
IterInit == /\ kind = "none"
            /\ source = <<>>
            /\ from = 0 /\ until = 0
            /\ it = Fresh
            /\ out = [c \in Side |-> <<>>]
            /\ says = [c \in Side |-> "?"]

\* partition(p), span(p), filter(p), takeWhile(p) of an array of which p
\* says src.
Iterate(k, src) ==
    /\ kind = "none"
    /\ kind' = k
    /\ source' = src
    /\ UNCHANGED <<from, until, it, out, says>>

\* slice(a, b) drops the elements before a at once.
IterateSlice(src, a, b) ==
    /\ kind = "none"
    /\ kind' = "slice"
    /\ source' = src
    /\ from' = a /\ until' = b
    /\ it' = [Fresh EXCEPT !.index = Min({Max({a, 0}), Len(src)}),
                           !.remaining = b - Max({a, 0})]
    /\ UNCHANGED <<out, says>>

\* hasNext of iterator c
AskNext(c) ==
    /\ kind # "none" /\ c \in Used
    /\ (kind = "span" /\ c = "first" /\ out["second"] # <<>>) => LateLeading
    /\ it' = Looked(c)
    /\ says' = [says EXCEPT ![c] = IF HasNext(c, it') THEN "yes" ELSE "no"]
    /\ UNCHANGED <<kind, source, from, until, out>>

\* next of iterator c: it looks again, and takes from its queue or from the
\* source.
TakeNext(c) ==
    /\ c \in Used /\ says[c] = "yes"
    /\ LET s == Looked(c)
       IN  IF s.lookahead[c] # <<>>
           THEN /\ out' = [out EXCEPT ![c] = Append(@, Head(s.lookahead[c]))]
                /\ it' = [s EXCEPT !.lookahead[c] = Tail(@)]
           ELSE /\ out' = [out EXCEPT ![c] = Append(@, Cursor(s))]
                /\ it' = [Consumed(s) EXCEPT !.remaining = IF kind = "slice" THEN @ - 1 ELSE @]
    /\ says' = [says EXCEPT ![c] = "?"]
    /\ UNCHANGED <<kind, source, from, until>>

UseNext == \E c \in Side : AskNext(c) \/ TakeNext(c)

-----------------------------------------------------------------------------
(* What each iterator has to deliver                                       *)

\* The positions in P, in order
Selected(P) ==
    LET upTo[n \in Nat] == IF n = 0 THEN <<>>
                           ELSE IF n - 1 \in P THEN Append(upTo[n - 1], n - 1)
                           ELSE upTo[n - 1]
    IN  upTo[N]
Prefix == Run(0, FirstOf({i \in 0 .. N - 1 : ~Fits("first", i)}, 0) - 1)
Share(c) ==
    CASE kind = "none" -> <<>>
      [] kind = "partition" -> Selected({i \in 0 .. N - 1 : Fits(c, i)})
      [] kind = "span" -> IF c = "first" THEN Prefix ELSE Run(Len(Prefix), N - 1)
      [] kind = "filter" /\ c = "first" -> Selected({i \in 0 .. N - 1 : Fits("first", i)})
      [] kind = "takeWhile" /\ c = "first" -> Prefix
      [] kind = "slice" /\ c = "first" -> Run(Max({from, 0}), Min({until, N}) - 1)
      [] OTHER -> <<>>

IterTypeOK ==
    /\ kind \in Kind \cup {"none"}
    /\ source \in Seq(BOOLEAN)
    /\ it.index \in 0 .. N /\ it.hdDefined \in BOOLEAN
    /\ it.hdDefined => it.index > 0
    /\ it.ended \in BOOLEAN /\ it.remaining \in Int
    /\ \A c \in Side : /\ it.lookahead[c] \in Seq(0 .. N - 1)
                       /\ out[c] \in Seq(0 .. N - 1)
                       /\ says[c] \in {"yes", "no", "?"}

\* Each iterator delivers the elements it is for, in their order, and no
\* other: "the longest prefix of this whose elements all satisfy p, and the
\* rest", "the iterator that satisfies the predicate and the iterator that
\* does not", in whatever order the two are used.
EachGetsItsShare == \A c \in Side : IsPrefix(out[c], Share(c))

\* While partition and span run, every element of the source is in one
\* place: delivered, in the queue of the iterator it is for, or still ahead.
NothingIsLost ==
    kind \in {"partition", "span"} =>
        \A c \in Side :
            LET ahead == Selected({i \in Cursor(it) .. N - 1 : Contains(Share(c), i)})
            IN  out[c] \o it.lookahead[c] \o ahead = Share(c)

Streams == INSTANCE ElementStreams
             WITH Stream <- Side, share <- [c \in Side |-> Share(c)], got <- out

\* hasNext tells the truth, an answer stays true whatever is done with the
\* other iterator, and next delivers what is due.
EachIsAStream == Streams!Spec
=============================================================================
