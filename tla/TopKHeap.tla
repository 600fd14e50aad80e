----------------------------- MODULE TopKHeap -----------------------------
(***************************************************************************)
(* The two bounded collections of lib/topk.ts: the heap that keeps the k   *)
(* best of a stream, its root the worst of them, and the reservoir that    *)
(* keeps a sample of a stream.  Items are compared by their field rank: a  *)
(* smaller rank is better.                                                 *)
(***************************************************************************)
EXTENDS Naturals, Sequences

Items(h) == {h[i] : i \in DOMAIN h}

Worse(a, b) == a.rank > b.rank

Exchange(h, i, j) == [h EXCEPT ![i] = h[j], ![j] = h[i]]

\* The item at a place of a heap goes up to its parent's, unless it is not worse;
\* as long as it does, it rises.
GoUp(s) ==
  LET p == s.at \div 2 IN
  IF s.at = 1 \/ ~Worse(s.heap[s.at], s.heap[p]) THEN s
  ELSE [heap |-> Exchange(s.heap, s.at, p), at |-> p]
BubbleUp(h, i) ==
  LET gone[n \in 0..Len(h)] == IF n = 0 THEN [heap |-> h, at |-> i] ELSE GoUp(gone[n - 1])
  IN gone[Len(h)].heap

\* Fault: only the left child is looked at.
WorstHereLeft(h, i) ==
  LET l == 2 * i IN IF l <= Len(h) /\ Worse(h[l], h[i]) THEN l ELSE i

\* Of a node and its children, the place of the worst.
WorstHere(h, i) ==
  LET l == 2 * i
      w == IF l <= Len(h) /\ Worse(h[l], h[i]) THEN l ELSE i
  IN IF l + 1 <= Len(h) /\ Worse(h[l + 1], h[w]) THEN l + 1 ELSE w

\* The item goes down to the place of its worst child, as far as one is worse.
GoDown(s) ==
  LET w == WorstHere(s.heap, s.at) IN
  IF w = s.at THEN s ELSE [heap |-> Exchange(s.heap, s.at, w), at |-> w]
SinkDown(h, i) ==
  LET gone[n \in 0..Len(h)] == IF n = 0 THEN [heap |-> h, at |-> i] ELSE GoDown(gone[n - 1])
  IN gone[Len(h)].heap

\* Fault: one item too many is kept.
PushTopOver(h, item, k) ==
  IF Len(h) <= k THEN BubbleUp(Append(h, item), Len(h) + 1)
  ELSE IF Worse(h[1], item) THEN SinkDown([h EXCEPT ![1] = item], 1)
  ELSE h

\* TopK.push
PushTop(h, item, k) ==
  IF k = 0 THEN h
  ELSE IF Len(h) < k THEN BubbleUp(Append(h, item), Len(h) + 1)
  ELSE IF Worse(h[1], item) THEN SinkDown([h EXCEPT ![1] = item], 1)
  ELSE h

\* Fault: an item is added to the reservoir and not exchanged.
PushSampleAdds(s, seen, item, max) == {Append(s, item), s}

\* Reservoir.push, with seen items before it.  Its random number may be 1, so
\* that the place drawn is one of 0..seen+1; the set of the possible samples.
PushSample(s, seen, item, max) ==
  IF max = 0 THEN {s}
  ELSE IF Len(s) < max THEN {Append(s, item)}
  ELSE {IF j < max THEN [s EXCEPT ![j + 1] = item] ELSE s : j \in 0..seen + 1}
=============================================================================
