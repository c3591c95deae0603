---------------------------- MODULE OutputProofs ----------------------------
(***************************************************************************)
(* Proofs about module Output: what a call reports of its command's output *)
(* is exact for every marker, chunk size, limit and text.                  *)
(*                                                                         *)
(* The inductive invariant IInv has four parts.  CaptureInv: what is kept  *)
(* is a prefix of what was written.  ToolInv: what was written is what the *)
(* tool's command writes.  AnswerInv: an answer is given once.  RemovalInv *)
(* with CopyInv: the loop of _remove_marker_from_file, at every cut of the *)
(* file into chunks, has seen every occurrence of the marker that ends in  *)
(* what it has read, because what it holds back is as long as the marker.  *)
(*                                                                         *)
(* Texts are compared member by member (SeqEqual); the first occurrence is *)
(* the least member of a set of naturals (LeastNat), which takes the place *)
(* of an induction over the text.                                          *)
(***************************************************************************)
EXTENDS Output, SequenceTheorems, WellFoundedInduction, FiniteSetTheorems, TLAPS

\* Every set of naturals that is not empty has a least member.
Less == {ss \in Nat \X Nat : ss[1] < ss[2]}
LEMMA LeastNat == ASSUME NEW T \in SUBSET Nat, T # {} PROVE \E x \in T : \A y \in T : x <= y
  <1>1. IsWellFoundedOn(Less, Nat)
    BY NatLessThanWellFounded, Zenon DEF OpToRel, Less
  <1>2. PICK x \in T : \A y \in T : ~(<<y, x>> \in Less)
    BY <1>1, WFMin
  <1>3. ASSUME NEW y \in T PROVE x <= y
    <2>1. x \in Nat /\ y \in Nat /\ ~(<<y, x>> \in Less)
      BY <1>2
    <2>2. y < x => <<y, x>> \in Less
      BY <2>1 DEF Less
    <2> QED
      BY <2>1, <2>2
  <1> QED
    BY <1>3

LEMMA FirstNFacts ==
  ASSUME NEW S, NEW s \in Seq(S), NEW n \in Nat
  PROVE  /\ FirstN(s, n) \in Seq(S)
         /\ Len(FirstN(s, n)) = IF n < Len(s) THEN n ELSE Len(s)
         /\ \A i \in 1 .. Len(FirstN(s, n)) : FirstN(s, n)[i] = s[i]
  <1> DEFINE k == IF n < Len(s) THEN n ELSE Len(s)
  <1>1. k \in Nat /\ k <= Len(s) /\ \A i \in 1 .. k : s[i] \in S
    OBVIOUS
  <1> HIDE DEF k
  <1>2. FirstN(s, n) = SubSeq(s, 1, k)
    BY DEF FirstN, k
  <1>3. /\ SubSeq(s, 1, k) \in Seq(S) /\ Len(SubSeq(s, 1, k)) = k
        /\ \A i \in 1 .. k : SubSeq(s, 1, k)[i] = s[i]
    BY <1>1, SubSeqProperties
  <1> QED
    BY <1>2, <1>3 DEF k

LEMMA FromFacts ==
  ASSUME NEW S, NEW s \in Seq(S), NEW n \in Nat
  PROVE  /\ From(s, n) \in Seq(S)
         /\ Len(From(s, n)) = IF n < Len(s) THEN Len(s) - n ELSE 0
         /\ \A i \in 1 .. Len(From(s, n)) : From(s, n)[i] = s[n + i]
  <1>1. n + 1 \in Int /\ Len(s) \in Int /\ \A i \in (n + 1) .. Len(s) : s[i] \in S
    OBVIOUS
  <1>2. /\ SubSeq(s, n + 1, Len(s)) \in Seq(S)
        /\ Len(SubSeq(s, n + 1, Len(s))) = IF n + 1 <= Len(s) THEN Len(s) - (n + 1) + 1 ELSE 0
        /\ \A i \in 1 .. (Len(s) - (n + 1) + 1) : SubSeq(s, n + 1, Len(s))[i] = s[(n + 1) + i - 1]
    BY <1>1, SubSeqProperties
  <1> QED
    BY <1>1, <1>2 DEF From

\* Where a text occurs, pointwise.
LEMMA OccursFacts ==
  ASSUME NEW S, NEW s \in Seq(S), NEW m \in Seq(S), NEW i
  PROVE  i \in Occurs(s, m) <=>
           i \in Nat /\ i + Len(m) <= Len(s) /\ \A k \in 1 .. Len(m) : s[i + k] = m[k]
  <1>1. Len(m) \in Nat /\ Len(s) \in Nat
    OBVIOUS
  <1>2. i \in Occurs(s, m) <=> i \in Nat /\ i + Len(m) <= Len(s) /\ SubSeq(s, i + 1, i + Len(m)) = m
    <2>1. i \in Occurs(s, m) <=> i \in 0 .. (Len(s) - Len(m)) /\ SubSeq(s, i + 1, i + Len(m)) = m
      BY DEF Occurs
    <2>2. i \in 0 .. (Len(s) - Len(m)) <=> i \in Nat /\ i + Len(m) <= Len(s)
      BY <1>1
    <2> QED
      BY <2>1, <2>2
  <1> SUFFICES ASSUME i \in Nat, i + Len(m) <= Len(s)
                 PROVE  SubSeq(s, i + 1, i + Len(m)) = m <=> \A k \in 1 .. Len(m) : s[i + k] = m[k]
    BY <1>2
  <1> DEFINE t == SubSeq(s, i + 1, i + Len(m))
  <1>3. /\ i + 1 \in Int /\ i + Len(m) \in Int /\ Len(m) \in Nat
        /\ \A k \in (i + 1) .. (i + Len(m)) : s[k] \in S
    BY <1>1
  <1>4. /\ t \in Seq(S)
        /\ Len(t) = IF i + 1 <= i + Len(m) THEN (i + Len(m)) - (i + 1) + 1 ELSE 0
        /\ \A k \in 1 .. ((i + Len(m)) - (i + 1) + 1) : t[k] = s[(i + 1) + k - 1]
    BY <1>3, SubSeqProperties
  <1> HIDE DEF t
  <1>5. Len(t) = Len(m) /\ \A k \in 1 .. Len(m) : t[k] = s[i + k]
    <2>1. (i + Len(m)) - (i + 1) + 1 = Len(m) /\ (i + 1 <= i + Len(m) <=> Len(m) # 0)
      BY <1>1
    <2>2. \A k \in 1 .. Len(m) : (i + 1) + k - 1 = i + k
      BY <1>1
    <2> QED
      BY <1>4, <2>1, <2>2
  <1>6. t = m <=> \A k \in 1 .. Len(m) : t[k] = m[k]
    BY <1>4, <1>5, SeqEqual
  <1> QED
    BY <1>5, <1>6 DEF t

\* bytes.find: the first occurrence.
LEMMA FindFacts ==
  ASSUME NEW S, NEW s \in Seq(S), NEW m \in Seq(S), Occurs(s, m) # {}
  PROVE  Find(s, m) \in Occurs(s, m) /\ \A j \in Occurs(s, m) : Find(s, m) <= j
  <1>1. Occurs(s, m) \in SUBSET Nat
    BY DEF Occurs
  <1>2. \E i \in Occurs(s, m) : \A j \in Occurs(s, m) : i <= j
    BY <1>1, LeastNat
  <1> QED
    BY <1>2 DEF Find

\* A text without its first marker, pointwise.
LEMMA WithoutFacts ==
  ASSUME NEW S, NEW s \in Seq(S), NEW m \in Seq(S), Occurs(s, m) # {}
  PROVE  /\ Without(s, m) \in Seq(S) /\ Len(Without(s, m)) = Len(s) - Len(m)
         /\ \A k \in 1 .. (Len(s) - Len(m)) :
                Without(s, m)[k] = IF k <= Find(s, m) THEN s[k] ELSE s[k + Len(m)]
  <1> DEFINE f == Find(s, m)
             a == FirstN(s, f)
             b == From(s, f + Len(m))
  <1>1. f \in Nat /\ f + Len(m) <= Len(s) /\ Len(m) \in Nat /\ Len(s) \in Nat
    BY FindFacts, OccursFacts
  <1>2. Without(s, m) = a \o b
    BY DEF Without
  <1> HIDE DEF f
  <1>3. a \in Seq(S) /\ Len(a) = f /\ \A i \in 1 .. f : a[i] = s[i]
    BY <1>1, FirstNFacts
  <1>4. f + Len(m) \in Nat
    BY <1>1
  <1>5. /\ b \in Seq(S) /\ Len(b) = Len(s) - (f + Len(m))
        /\ \A i \in 1 .. (Len(s) - (f + Len(m))) : b[i] = s[(f + Len(m)) + i]
    BY <1>1, <1>4, FromFacts
  <1> HIDE DEF a, b
  <1>6. /\ a \o b \in Seq(S) /\ Len(a \o b) = Len(s) - Len(m)
        /\ \A k \in 1 .. (Len(s) - Len(m)) : (a \o b)[k] = IF k <= f THEN a[k] ELSE b[k - f]
    <2>1. /\ a \o b \in Seq(S) /\ Len(a \o b) = Len(a) + Len(b)
          /\ \A k \in 1 .. (Len(a) + Len(b)) : (a \o b)[k] = IF k <= Len(a) THEN a[k] ELSE b[k - Len(a)]
      <3>1. a \in Seq(S) /\ b \in Seq(S)
        BY <1>3, <1>5
      <3> QED
        BY <3>1, ConcatProperties, Zenon
    <2>2. Len(a) + Len(b) = Len(s) - Len(m)
      BY <1>1, <1>3, <1>5
    <2> QED
      BY <1>3, <2>1, <2>2
  <1>7. ASSUME NEW k \in 1 .. (Len(s) - Len(m)) PROVE (a \o b)[k] = IF k <= f THEN s[k] ELSE s[k + Len(m)]
    BY <1>1, <1>3, <1>5, <1>6
  <1> QED
    BY <1>2, <1>6, <1>7 DEF f

\* What occurs in a prefix occurs in the whole text, and first at the same place.
LEMMA PrefixOccurs ==
  ASSUME NEW S, NEW s \in Seq(S), NEW m \in Seq(S), NEW t \in Seq(S), Len(t) <= Len(s),
         \A k \in 1 .. Len(t) : t[k] = s[k]
  PROVE  /\ Occurs(t, m) = { i \in Occurs(s, m) : i + Len(m) <= Len(t) }
         /\ Occurs(t, m) # {} => Occurs(s, m) # {} /\ Find(t, m) = Find(s, m)
  <1>1. Len(m) \in Nat /\ Len(s) \in Nat /\ Len(t) \in Nat
    OBVIOUS
  <1>2. ASSUME NEW i PROVE i \in Occurs(t, m) <=> i \in Occurs(s, m) /\ i + Len(m) <= Len(t)
    <2>1. i \in Occurs(t, m) <=> i \in Nat /\ i + Len(m) <= Len(t) /\ \A k \in 1 .. Len(m) : t[i + k] = m[k]
      BY OccursFacts
    <2>2. i \in Occurs(s, m) <=> i \in Nat /\ i + Len(m) <= Len(s) /\ \A k \in 1 .. Len(m) : s[i + k] = m[k]
      BY OccursFacts
    <2>3. ASSUME i \in Nat, i + Len(m) <= Len(t) PROVE \A k \in 1 .. Len(m) : t[i + k] = s[i + k]
      BY <1>1, <2>3
    <2> QED
      BY <1>1, <2>1, <2>2, <2>3
  <1>3. ASSUME Occurs(t, m) # {} PROVE Occurs(s, m) # {} /\ Find(t, m) = Find(s, m)
    <2>1. Occurs(s, m) # {}
      BY <1>2, <1>3
    <2>2. Find(t, m) \in Occurs(t, m) /\ \A j \in Occurs(t, m) : Find(t, m) <= j
      BY <1>3, FindFacts
    <2>3. Find(s, m) \in Occurs(s, m) /\ \A j \in Occurs(s, m) : Find(s, m) <= j
      BY <2>1, FindFacts
    <2>4. Find(t, m) \in Nat /\ Find(s, m) \in Nat
      BY <2>2, <2>3 DEF Occurs
    <2>5. Find(s, m) <= Find(t, m)
      BY <2>2, <2>3, <1>2
    <2>6. Find(s, m) + Len(m) <= Len(t)
      BY <2>2, <2>4, <2>5, <1>1, <1>2
    <2>7. Find(s, m) \in Occurs(t, m)
      BY <2>3, <2>6, <1>2
    <2> QED
      BY <2>1, <2>2, <2>4, <2>5, <2>7
  <1> QED
    BY <1>2, <1>3

-----------------------------------------------------------------------------
Text == Byte \cup {Nul}

\* find -printf: four fields an entry.
LEMMA ListingFacts ==
  ASSUME NEW n \in Nat
  PROVE  Listing(n) \in Seq(Text) /\ Fields(Listing(n)) = 4 * n
  <1> DEFINE b == CHOOSE x \in Byte : TRUE
             s == Listing(n)
             nuls == { i \in 1 .. Len(s) : s[i] = Nul }
             f == [k \in 1 .. (4 * n) |-> 2 * k]
  <1>1. b \in Byte
    BY OutputAssumption
  <1>2. s = [i \in 1 .. (8 * n) |-> IF i % 2 = 0 THEN Nul ELSE b]
    BY DEF Listing
  <1> HIDE DEF b
  <1>3. s \in Seq(Text) /\ Len(s) = 8 * n
    BY <1>1, <1>2 DEF Text
  <1>4. \A i \in 1 .. (8 * n) : s[i] = Nul <=> i % 2 = 0
    BY <1>1, <1>2, OutputAssumption
  <1> HIDE DEF s
  <1>5. \A i \in 1 .. (8 * n) : i % 2 = 0 <=> \E k \in 1 .. (4 * n) : i = 2 * k
    <2>1. ASSUME NEW i \in 1 .. (8 * n), i % 2 = 0 PROVE \E k \in 1 .. (4 * n) : i = 2 * k
      <3>1. i = 2 * (i \div 2) /\ i \div 2 \in 1 .. (4 * n)
        BY <2>1
      <3> QED
        BY <3>1
    <2>2. ASSUME NEW k \in 1 .. (4 * n) PROVE (2 * k) % 2 = 0
      OBVIOUS
    <2> QED
      BY <2>1, <2>2
  <1>6. f \in Bijection(1 .. (4 * n), nuls)
    <2>1. \A k \in 1 .. (4 * n) : 2 * k \in 1 .. (8 * n)
      OBVIOUS
    <2>2. \A k \in 1 .. (4 * n) : f[k] \in nuls
      BY <1>3, <1>4, <1>5, <2>1
    <2>3. f \in Injection(1 .. (4 * n), nuls)
      <3>1. f \in [1 .. (4 * n) -> nuls]
        BY <2>2
      <3>2. \A j, k \in 1 .. (4 * n) : f[j] = f[k] => j = k
        OBVIOUS
      <3> HIDE DEF f
      <3> QED
        BY <3>1, <3>2 DEF Injection, IsInjective
    <2>4. \A i \in nuls : \E k \in 1 .. (4 * n) : f[k] = i
      BY <1>3, <1>4, <1>5
    <2> QED
      BY <2>2, <2>3, <2>4 DEF Bijection, Surjection
  <1>7. Cardinality(nuls) = 4 * n
    <2>1. ExistsBijection(1 .. (4 * n), nuls)
      BY <1>6 DEF ExistsBijection
    <2>2. IsFiniteSet(1 .. (4 * n)) /\ Cardinality(1 .. (4 * n)) = 4 * n
      BY FS_Interval
    <2> QED
      BY <2>1, <2>2, FS_Bijection
  <1>8. s # <<>> => s[Len(s)] = Nul
    <2>1. n # 0 => (8 * n) % 2 = 0 /\ 8 * n \in 1 .. (8 * n)
      OBVIOUS
    <2> QED
      BY <1>3, <1>4, <2>1
  <1> QED
    BY <1>3, <1>7, <1>8 DEF Fields, s

-----------------------------------------------------------------------------
(* The inductive invariant.                                                *)

Least(m, n) == IF m < n THEN m ELSE n

\* s is the first n members of t.
PrefixOf(s, t, n) == s \in Seq(Text) /\ Len(s) = n /\ \A k \in 1 .. n : s[k] = t[k]

\* _capture: what is read so far, of which the first bytes are kept.
CaptureInv ==
    /\ pc \in {"idle", "stat", "run", "capture", "captured", "done", "crashed"}
    /\ exit \in {"ok", "failed", "killed"}
    /\ out \in Seq(Text) /\ total \in 0 .. Len(out)
    /\ PrefixOf(captured, out, Least(total, MaxOutputBytes))
    /\ pc \in {"idle", "stat", "run"} => total = 0 /\ spool = None
    /\ pc = "capture" => spool = None \/ PrefixOf(spool, out, total)
    /\ pc = "captured" => total = Len(out)
    /\ pc = "captured" /\ thread = "none" => spool \in {None, out}

\* The answer is given once, and what it is about stays as it is.
AnswerInv ==
    /\ pc \in {"idle", "stat", "run", "capture", "captured"} => answer = NoAnswer
    /\ answer.kind = "result" => thread \in {"none", "ended"}

\* Each tool and what its command writes.
Inspection == [tool : {"range", "list"}, offset : Nat, max : Nat, met : Remotes, seen : {Missing}]
RangeOf(c) == c.offset \in Nat /\ c.max \in 1 .. MaxOutputBytes
SudoWrites ==
    /\ call.noise \in Seq(Byte) /\ call.text \in Seq(Byte) /\ Fresh(call.noise)
    /\ exit # "killed" => out = IF call.started THEN call.noise \o (Marker \o call.text) ELSE call.noise
RangeWrites ==
    /\ RangeOf(call) /\ HasContent(call.met)
    /\ exit = "ok" => /\ call.seen.type = "file" /\ call.seen.data \in Seq(Byte)
                      /\ out = Window(call.seen.data, call.offset, call.max)
ListWrites ==
    exit = "ok" => \/ call.seen.type = "file" /\ out = <<>>
                   \/ call.seen.type = "directory" /\ call.seen.entries \in Nat /\ out = Listing(call.seen.entries)
ToolInv ==
    /\ remote \in Remotes
    /\ pc \in {"stat", "run"} => call \in Inspection /\ (call.tool = "range" => RangeOf(call))
    /\ pc = "run" => (call.tool = "range" => HasContent(call.met))
    /\ pc \in {"capture", "captured"} =>
           \/ call.tool = "sudo" /\ SudoWrites
           \/ call.tool = "range" /\ RangeWrites
           \/ call.tool = "list" /\ ListWrites

\* s begins with t; c is what it has behind its first n members; t and then p
\* are its first n members.
Starts(t, s) == \A k \in 1 .. Len(t) : t[k] = s[k]
At(c, s, n)  == \A k \in 1 .. Len(c) : c[k] = s[n + k]
Split(t, p, s, n) ==
    /\ t \in Seq(Text) /\ p \in Seq(Text) /\ Len(t) + Len(p) = n
    /\ Starts(t, s) /\ At(p, s, Len(t))

\* _remove_marker_from_file: until the marker is found, what is written and what
\* is held back are the part read so far, in which it does not occur, and what
\* is held back is as long as a marker unless nothing is written; afterwards
\* they are that part without it.
CopyInv ==
    /\ pos \in 0 .. Len(out)
    /\ ~found => /\ Split(tmp, pending, out, pos)
                 /\ tmp = <<>> \/ Len(pending) = Len(Marker)
                 /\ \A j \in Occurs(out, Marker) : j + Len(Marker) > pos
    /\ found => /\ Find(out, Marker) + Len(Marker) <= pos
                /\ Split(tmp, pending, Without(out, Marker), pos - Len(Marker))

RemovalInv ==
    /\ thread \in {"none", "copy", "copied", "ended", "failed", "crashed"}
    /\ tmp # None => thread \in {"copy", "copied", "crashed"}
    /\ pc \in {"idle", "stat", "run", "capture"} => thread = "none"
    /\ thread = "none" => pos = 0 /\ pending = <<>> /\ ~found
    /\ thread # "none" => Occurs(out, Marker) # {} /\ spool \in {out, Without(out, Marker)}
    /\ thread \in {"copy", "copied"} => spool = out
    /\ thread = "copy" => CopyInv
    /\ thread = "copied" => found /\ tmp = Without(out, Marker)
    /\ thread = "ended" => spool = Without(out, Marker)

IInv ==
    /\ CaptureInv /\ AnswerInv /\ ToolInv /\ RemovalInv
    /\ SudoOutputExact /\ RefusalSound /\ RangeExact /\ ListComplete

USE OutputAssumption

LEMMA InitInv == Init => IInv
  <1> SUFFICES ASSUME Init PROVE IInv
    OBVIOUS
  <1>1. CaptureInv
    BY DEF Init, CaptureInv, PrefixOf, Least
  <1>2. answer.kind = "none" /\ AnswerInv
    BY DEF Init, AnswerInv, NoAnswer
  <1>3. ToolInv
    BY DEF Init, ToolInv, Remotes
  <1>4. RemovalInv
    BY DEF Init, RemovalInv
  <1> QED
    BY <1>1, <1>2, <1>3, <1>4 DEF IInv, SudoOutputExact, RefusalSound, RangeExact, ListComplete

\* The type of a range call may be refused; a call that ends with an error.
TypeRefusable == call.tool = "range" => ~HasContent(call.met)
LEMMA ErrorStep ==
  ASSUME IInv, NEW code, pc' = "done", answer' = Error(code), UNCHANGED <<remote, streamVars, spool, removal>>,
         RefusalSound', code = "invalid_remote_type" => TypeRefusable'
  PROVE  IInv'
  <1>1. answer'.kind = "error" /\ answer'.code = code
    BY DEF Error
  <1>2. /\ remote' = remote /\ out' = out /\ exit' = exit /\ captured' = captured /\ total' = total
        /\ spool' = spool /\ tmp' = tmp /\ pos' = pos /\ pending' = pending /\ found' = found /\ thread' = thread
    BY DEF streamVars, removal
  <1>3. CaptureInv'
    BY <1>2 DEF IInv, CaptureInv, PrefixOf
  <1>4. AnswerInv'
    BY <1>1 DEF AnswerInv
  <1>5. ToolInv'
    BY <1>2 DEF IInv, ToolInv
  <1>6. RemovalInv'
    BY <1>2 DEF IInv, RemovalInv, CopyInv
  <1> QED
    BY <1>1, <1>3, <1>4, <1>5, <1>6 DEF IInv, SudoOutputExact, RangeExact, TypeRefusable, ListComplete

\* One that is not a refusal of sudo.
LEMMA OtherErrorStep ==
  ASSUME IInv, NEW code, pc' = "done", answer' = Error(code), UNCHANGED <<remote, streamVars, spool, removal>>,
         code \notin Refusals \cup {"sudo_start_timeout"}, code = "invalid_remote_type" => TypeRefusable'
  PROVE  IInv'
  <1>1. answer'.code = code
    BY DEF Error
  <1>2. RefusalSound'
    BY <1>1 DEF RefusalSound, Refusals
  <1> QED
    BY <1>2, ErrorStep

-----------------------------------------------------------------------------
(* The calls up to the command.                                            *)

LEMMA RefuseStep == ASSUME NEW tool, NEW offset, NEW max, IInv, Refuse(tool, offset, max) PROVE IInv'
  <1>1. \E code \in {"invalid_command", "invalid_range", "invalid_remote_path"} : answer' = Error(code)
    BY DEF Refuse, Answer
  <1> QED
    BY <1>1, OtherErrorStep DEF Refuse, Answer, Refusals

\* A step of a call that has no answer yet and does not read or remove.
LEMMA CallStep ==
  ASSUME IInv, pc \in {"idle", "stat", "run"}, UNCHANGED <<captured, total, removal, answer>>,
         pc' \in {"stat", "run", "capture"}, out' \in Seq(Text), exit' \in {"ok", "failed", "killed"},
         spool' = None \/ (pc' = "capture" /\ spool' = <<>>), ToolInv'
  PROVE  IInv'
  <1>1. answer = NoAnswer /\ answer' = NoAnswer /\ answer'.kind = "none"
    BY DEF IInv, AnswerInv, NoAnswer
  <1>2. /\ tmp' = tmp /\ pos' = pos /\ pending' = pending /\ found' = found
        /\ thread' = thread /\ thread = "none" /\ total = 0 /\ total' = 0 /\ captured' = captured
    BY DEF IInv, CaptureInv, RemovalInv, removal
  <1>3. CaptureInv'
    BY <1>2 DEF IInv, CaptureInv, PrefixOf, Least
  <1>4. AnswerInv' /\ RemovalInv'
    BY <1>1, <1>2 DEF IInv, AnswerInv, RemovalInv
  <1> QED
    BY <1>1, <1>3, <1>4 DEF IInv, SudoOutputExact, RefusalSound, RangeExact, ListComplete

LEMMA SudoStep ==
  ASSUME NEW noise \in Noise, NEW started \in BOOLEAN, NEW text \in Texts, NEW spooled \in BOOLEAN,
         IInv, Sudo(noise, started, text, spooled)
  PROVE  IInv'
  <1>1. /\ pc = "idle" /\ pc' = "capture" /\ UNCHANGED <<captured, total, removal, answer>> /\ remote' = remote
        /\ spool' \in {None, <<>>} /\ Fresh(noise)
    BY DEF Sudo
  <1>2. noise \in Seq(Byte) /\ text \in Seq(Byte) /\ Marker \in Seq(Byte)
    OBVIOUS
  <1>3. out' = IF started THEN noise \o (Marker \o text) ELSE noise
    BY <1>2, SMTT(40) DEF Sudo
  <1>4. exit' \in {"ok", "failed"}
    BY DEF Sudo
  <1>5. out' \in Seq(Byte)
    BY <1>2, <1>3
  <1>6. out' \in Seq(Text)
    BY <1>5, SeqMonotonic DEF Text
  <1>7. call'.tool = "sudo" /\ call'.noise = noise /\ call'.text = text /\ call'.started = started
    BY Zenon DEF Sudo
  <1>8. SudoWrites'
    BY <1>1, <1>2, <1>3, <1>7 DEF SudoWrites, Fresh
  <1>9. ToolInv'
    BY <1>1, <1>7, <1>8 DEF IInv, ToolInv
  <1> QED
    BY <1>1, <1>4, <1>6, <1>9, CallStep

LEMMA InspectStep ==
  ASSUME NEW tool \in {"range", "list"}, NEW offset \in Nat, NEW max \in Nat, IInv, Inspect(tool, offset, max)
  PROVE  IInv'
  <1>1. /\ pc = "idle" /\ pc' = "stat" /\ UNCHANGED <<captured, total, removal, answer>>
        /\ remote' = remote /\ out' = out /\ exit' = exit /\ spool' = spool
        /\ call' = [tool |-> tool, offset |-> offset, max |-> max, met |-> Missing, seen |-> Missing]
        /\ tool = "range" => max \in 1 .. MaxOutputBytes
    BY DEF Inspect, streamVars, ValidRange
  <1>2. ToolInv'
    BY <1>1 DEF IInv, ToolInv, RangeOf, Inspection, Remotes
  <1>3. spool = None /\ out \in Seq(Text) /\ exit \in {"ok", "failed", "killed"}
    BY <1>1 DEF IInv, CaptureInv
  <1> QED
    BY <1>1, <1>2, <1>3, CallStep

LEMMA StatStep == ASSUME IInv, Stat PROVE IInv'
  <1>1. /\ pc = "stat" /\ call' = [call EXCEPT !.met = remote]
        /\ UNCHANGED <<remote, streamVars, spool, removal>>
    BY DEF Stat
  <1>2. /\ remote \in Remotes /\ call \in Inspection /\ (call.tool = "range" => RangeOf(call))
    BY <1>1 DEF IInv, ToolInv
  <1>3. /\ call' \in Inspection /\ call'.met = remote /\ call'.tool = call.tool
        /\ call'.offset = call.offset /\ call'.max = call.max
    BY <1>1, <1>2 DEF Inspection
  \* What stat calls a regular file is a file with content, and nothing else is.
  <1>4. call.tool = "range" => (StatType(remote) = Wanted(call.tool) <=> HasContent(remote))
    <2>1. remote.type \in {"missing", "file", "directory"}
      BY <1>2 DEF Remotes, Missing
    <2> QED
      BY <2>1 DEF StatType, Wanted, HasContent
  <1>5. CASE Answer(Error("remote_path_not_found"))
    BY <1>1, <1>5, OtherErrorStep DEF Answer, Refusals
  <1>6. CASE remote # Missing /\ StatType(remote) # Wanted(call.tool) /\ Answer(Error("invalid_remote_type"))
    <2>1. TypeRefusable'
      BY <1>3, <1>4, <1>6 DEF TypeRefusable, HasContent
    <2> QED
      BY <1>1, <1>6, <2>1, OtherErrorStep DEF Answer, Refusals
  <1>7. CASE StatType(remote) = Wanted(call.tool) /\ pc' = "run" /\ answer' = answer
    <2>1. remote' = remote /\ out' = out /\ exit' = exit /\ captured' = captured /\ total' = total
      BY <1>1 DEF streamVars
    <2>2. ToolInv'
      BY <1>2, <1>3, <1>4, <1>7, <2>1 DEF ToolInv, RangeOf, HasContent
    <2>3. spool = None /\ out \in Seq(Text) /\ exit \in {"ok", "failed", "killed"}
      BY <1>1 DEF IInv, CaptureInv
    <2> QED
      BY <1>1, <1>7, <2>1, <2>2, <2>3, CallStep
  <1> QED
    BY <1>5, <1>6, <1>7 DEF Stat

LEMMA RemoteChangesStep == ASSUME IInv, RemoteChanges PROVE IInv'
  <1>1. /\ pc \in {"stat", "run"} /\ pc' = pc /\ call' = call /\ remote' \in Remotes
        /\ UNCHANGED <<streamVars, spool, removal, answer>>
    BY DEF RemoteChanges
  <1>2. out' = out /\ exit' = exit /\ captured' = captured /\ total' = total
    BY <1>1 DEF streamVars
  <1>3. ToolInv'
    BY <1>1, <1>2 DEF IInv, ToolInv, RangeOf
  <1>4. spool = None /\ out \in Seq(Text) /\ exit \in {"ok", "failed", "killed"}
    BY <1>1 DEF IInv, CaptureInv
  <1> QED
    BY <1>1, <1>2, <1>3, <1>4, CallStep

LEMMA RemoteFacts ==
  ASSUME NEW r \in Remotes
  PROVE  /\ r.type = "file" => r.data \in Seq(Byte)
         /\ r.type = "directory" => r.entries \in Nat
  BY DEF Remotes, Missing

LEMMA WindowFacts ==
  ASSUME NEW data \in Seq(Byte), NEW offset \in Nat, NEW max \in Nat
  PROVE  /\ Window(data, offset, max) \in Seq(Byte) /\ From(data, offset) \in Seq(Byte)
         /\ Len(Window(data, offset, max)) = Least(max + 1, Len(From(data, offset)))
         /\ \A k \in 1 .. Len(Window(data, offset, max)) : Window(data, offset, max)[k] = From(data, offset)[k]
  <1>1. From(data, offset) \in Seq(Byte)
    BY FromFacts
  <1>2. max + 1 \in Nat
    OBVIOUS
  <1> QED
    BY <1>1, <1>2, FirstNFacts DEF Window, Least

LEMMA RunInspectionStep == ASSUME IInv, RunInspection PROVE IInv'
  <1> DEFINE result == ResultOf(call.tool, remote, call.offset, call.max)
  <1>1. /\ pc = "run" /\ pc' = "capture" /\ UNCHANGED <<remote, captured, total, spool, removal, answer>>
        /\ call' = [call EXCEPT !.seen = remote] /\ out' = result.out /\ exit' = result.exit
    BY DEF RunInspection
  <1>2. /\ remote \in Remotes /\ spool = None /\ call \in Inspection
        /\ call.tool = "range" => RangeOf(call) /\ HasContent(call.met)
    BY <1>1 DEF IInv, ToolInv, CaptureInv
  <1>3. /\ call'.tool = call.tool /\ call'.seen = remote /\ call'.offset = call.offset /\ call'.max = call.max
        /\ call'.met = call.met /\ call.tool \in {"range", "list"} /\ call.offset \in Nat /\ call.max \in Nat
    BY <1>1, <1>2 DEF Inspection
  <1>4. result.out \in Seq(Text) /\ result.exit \in {"ok", "failed"}
    <2>1. CASE remote.type = "file"
      <3>1. Window(remote.data, call.offset, call.max) \in Seq(Byte)
        BY <1>2, <1>3, <2>1, RemoteFacts, WindowFacts
      <3>2. Window(remote.data, call.offset, call.max) \in Seq(Text)
        BY <3>1, SeqMonotonic DEF Text
      <3> QED
        BY <2>1, <3>2 DEF ResultOf
    <2>2. CASE remote.type = "directory"
      <3>1. Listing(remote.entries) \in Seq(Text)
        BY <1>2, <2>2, RemoteFacts, ListingFacts
      <3> QED
        BY <2>2, <3>1 DEF ResultOf
    <2>3. CASE remote.type \notin {"file", "directory"}
      BY <2>3 DEF ResultOf
    <2> QED
      BY <2>1, <2>2, <2>3
  <1>5. CASE call.tool = "range"
    <2>1. result.exit = "ok" => remote.type = "file" /\ result.out = Window(remote.data, call.offset, call.max)
      BY <1>5 DEF ResultOf
    <2>2. RangeWrites'
      BY <1>1, <1>2, <1>3, <1>5, <2>1, RemoteFacts DEF RangeWrites, RangeOf, HasContent
    <2> QED
      BY <1>1, <1>2, <1>3, <1>4, <1>5, <2>2, CallStep DEF ToolInv
  <1>6. CASE call.tool = "list"
    <2>1. result.exit = "ok" => \/ remote.type = "file" /\ result.out = <<>>
                                \/ remote.type = "directory" /\ result.out = Listing(remote.entries)
      BY <1>6 DEF ResultOf
    <2>2. ListWrites'
      BY <1>1, <1>2, <1>3, <2>1, RemoteFacts DEF ListWrites
    <2> QED
      BY <1>1, <1>2, <1>3, <1>4, <1>6, <2>2, CallStep DEF ToolInv
  <1> QED
    BY <1>3, <1>5, <1>6

-----------------------------------------------------------------------------
(* _capture.                                                               *)

\* A step of the capture; it has no answer and no removal beside it.
LEMMA CaptureStep ==
  ASSUME IInv, pc = "capture", pc' \in {"capture", "captured"}, UNCHANGED <<call, remote, removal, answer>>,
         CaptureInv', ToolInv'
  PROVE  IInv'
  <1>1. answer = NoAnswer /\ answer' = NoAnswer /\ answer'.kind = "none"
    BY DEF IInv, AnswerInv, NoAnswer
  <1>2. /\ tmp' = tmp /\ pos' = pos /\ pending' = pending /\ found' = found
        /\ thread' = "none" /\ thread = "none"
    BY DEF IInv, RemovalInv, removal
  <1>3. AnswerInv' /\ RemovalInv'
    BY <1>1, <1>2 DEF IInv, AnswerInv, RemovalInv
  <1> QED
    BY <1>1, <1>3 DEF IInv, SudoOutputExact, RefusalSound, RangeExact, ListComplete

LEMMA ToolKept ==
  ASSUME IInv, pc = "capture", pc' \in {"capture", "captured"}, UNCHANGED <<call, remote, out, exit>>
  PROVE  ToolInv'
  BY DEF IInv, ToolInv, SudoWrites, RangeWrites, ListWrites, RangeOf, Fresh

\* A chunk after a prefix is a longer prefix.
LEMMA Longer ==
  ASSUME NEW s, NEW t \in Seq(Text), NEW n \in Nat, NEW c, NEW k \in Nat,
         PrefixOf(s, t, n), n + k <= Len(t),
         c \in Seq(Text), Len(c) = k, \A i \in 1 .. k : c[i] = t[n + i]
  PROVE  PrefixOf(s \o c, t, n + k)
  <1>1. s \in Seq(Text) /\ Len(s) = n /\ \A i \in 1 .. n : s[i] = t[i]
    BY DEF PrefixOf
  <1>2. /\ s \o c \in Seq(Text) /\ Len(s \o c) = Len(s) + Len(c)
        /\ \A i \in 1 .. (Len(s) + Len(c)) : (s \o c)[i] = IF i <= Len(s) THEN s[i] ELSE c[i - Len(s)]
    <2>1. s \in Seq(Text) /\ c \in Seq(Text)
      BY <1>1
    <2> QED
      BY <2>1, ConcatProperties, Zenon
  <1>3. ASSUME NEW i \in 1 .. (n + k) PROVE (s \o c)[i] = t[i]
    BY <1>1, <1>2
  <1> QED
    BY <1>1, <1>2, <1>3 DEF PrefixOf

LEMMA ReadChunkStep == ASSUME NEW n \in 1 .. Chunk, IInv, ReadChunk(n) PROVE IInv'
  <1> DEFINE chunk == SubSeq(out, total + 1, total + n)
             room  == MaxOutputBytes - Len(captured)
             part  == FirstN(chunk, room)
  <1>1. /\ pc = "capture" /\ pc' = pc /\ UNCHANGED <<call, remote, removal, answer>> /\ out' = out /\ exit' = exit
        /\ total + n <= Len(out) /\ total' = total + n
    BY DEF ReadChunk
  <1>2. captured' = captured \o part /\ spool' = IF spool = None THEN None ELSE spool \o chunk
    BY DEF ReadChunk, Kept
  <1>3. /\ out \in Seq(Text) /\ total \in Nat /\ n \in Nat \ {0} /\ Len(out) \in Nat
        /\ PrefixOf(captured, out, Least(total, MaxOutputBytes))
        /\ spool = None \/ PrefixOf(spool, out, total)
    BY <1>1 DEF IInv, CaptureInv
  <1>4. chunk \in Seq(Text) /\ Len(chunk) = n /\ \A i \in 1 .. n : chunk[i] = out[total + i]
    <2>1. total + 1 \in Int /\ total + n \in Int /\ \A i \in (total + 1) .. (total + n) : out[i] \in Text
      BY <1>1, <1>3
    <2>2. /\ chunk \in Seq(Text)
          /\ Len(chunk) = IF total + 1 <= total + n THEN (total + n) - (total + 1) + 1 ELSE 0
          /\ \A i \in 1 .. ((total + n) - (total + 1) + 1) : chunk[i] = out[(total + 1) + i - 1]
      BY <2>1, SubSeqProperties
    <2>3. (total + n) - (total + 1) + 1 = n /\ \A i \in 1 .. n : (total + 1) + i - 1 = total + i
      BY <1>3
    <2> HIDE DEF chunk
    <2> QED
      BY <1>3, <2>2, <2>3
  <1> HIDE DEF chunk
  <1>5. Len(captured) = Least(total, MaxOutputBytes) /\ room \in Nat
    BY <1>3 DEF PrefixOf, Least
  <1>6. part \in Seq(Text) /\ Len(part) = Least(room, n) /\ \A i \in 1 .. Len(part) : part[i] = chunk[i]
    BY <1>4, <1>5, FirstNFacts DEF Least
  <1>7. PrefixOf(captured', out, Least(total + n, MaxOutputBytes))
    <2> DEFINE l == Least(total, MaxOutputBytes)
               k == Least(room, n)
    <2>1. l \in Nat /\ k \in Nat /\ l + k <= Len(out) /\ l + k = Least(total + n, MaxOutputBytes)
      BY <1>1, <1>3, <1>5 DEF Least
    <2>2. \A i \in 1 .. k : part[i] = out[l + i]
      <3>1. k # 0 => l = total
        BY <1>3, <1>5 DEF Least
      <3>2. k <= n /\ k \in Nat /\ Len(part) = k
        BY <1>3, <1>5, <1>6 DEF Least
      <3> HIDE DEF l, k, part
      <3> QED
        BY <1>3, <1>4, <1>6, <3>1, <3>2
    <2> HIDE DEF l, k, part
    <2>3. PrefixOf(captured, out, l) /\ Len(part) = k
      BY <1>3, <1>6 DEF l, k
    <2>4. PrefixOf(captured \o part, out, l + k)
      BY <1>3, <1>6, <2>1, <2>2, <2>3, Longer
    <2> QED
      BY <1>2, <2>1, <2>4
  <1>8. spool' = None \/ PrefixOf(spool', out, total + n)
    BY <1>1, <1>2, <1>3, <1>4, Longer
  <1>9. CaptureInv'
    BY <1>1, <1>3, <1>7, <1>8 DEF IInv, CaptureInv, PrefixOf
  <1>10. ToolInv'
    BY <1>1, ToolKept
  <1> QED
    BY <1>1, <1>9, <1>10, CaptureStep

LEMMA EndOfStreamStep == ASSUME IInv, EndOfStream PROVE IInv'
  <1>1. /\ pc = "capture" /\ pc' = "captured" /\ UNCHANGED <<call, remote, removal, answer>>
        /\ out' = out /\ exit' = exit /\ captured' = captured /\ total' = total /\ spool' = spool /\ total = Len(out)
    BY DEF EndOfStream, streamVars
  <1>2. out \in Seq(Text) /\ (spool = None \/ PrefixOf(spool, out, Len(out)))
    BY <1>1 DEF IInv, CaptureInv
  <1>3. spool = None \/ spool = out
    BY <1>2, SeqEqual DEF PrefixOf
  <1>4. CaptureInv'
    BY <1>1, <1>3 DEF IInv, CaptureInv, PrefixOf
  <1> QED
    BY <1>1, <1>4, CaptureStep, ToolKept

LEMMA DeadlineCutsStep == ASSUME IInv, DeadlineCuts PROVE IInv'
  <1>1. /\ pc = "capture" /\ pc' = "captured" /\ UNCHANGED <<call, remote, removal, answer>>
        /\ captured' = captured /\ total' = total /\ spool' = spool
        /\ out' = FirstN(out, total) /\ exit' = "killed"
    BY DEF DeadlineCuts
  <1>2. /\ out \in Seq(Text) /\ total \in Nat /\ total <= Len(out) /\ (spool = None \/ PrefixOf(spool, out, total))
        /\ PrefixOf(captured, out, Least(total, MaxOutputBytes))
    BY <1>1 DEF IInv, CaptureInv
  <1>3. out' \in Seq(Text) /\ Len(out') = total /\ \A i \in 1 .. total : out'[i] = out[i]
    BY <1>1, <1>2, FirstNFacts
  <1>4. spool = None \/ spool = out'
    BY <1>2, <1>3, SeqEqual DEF PrefixOf
  <1>5. PrefixOf(captured', out', Least(total, MaxOutputBytes))
    BY <1>1, <1>2, <1>3 DEF PrefixOf, Least
  <1>6. CaptureInv'
    BY <1>1, <1>2, <1>3, <1>4, <1>5 DEF CaptureInv
  <1>7. ToolInv'
    BY <1>1 DEF IInv, ToolInv, SudoWrites, RangeWrites, ListWrites, RangeOf, Fresh
  <1> QED
    BY <1>1, <1>6, <1>7, CaptureStep

-----------------------------------------------------------------------------
(* The answers.                                                            *)

LEMMA AnswerStep ==
  ASSUME IInv, pc = "captured", pc' = "done", UNCHANGED <<call, remote, streamVars, spool, removal>>,
         answer'.kind = "result" => thread \in {"none", "ended"},
         SudoOutputExact', RefusalSound', RangeExact', ListComplete'
  PROVE  IInv'
  <1>1. /\ remote' = remote /\ out' = out /\ exit' = exit /\ captured' = captured /\ total' = total
        /\ spool' = spool /\ tmp' = tmp /\ pos' = pos /\ pending' = pending /\ found' = found /\ thread' = thread
    BY DEF streamVars, removal
  <1>2. CaptureInv'
    BY <1>1 DEF IInv, CaptureInv, PrefixOf
  <1>3. AnswerInv' /\ ToolInv'
    BY <1>1 DEF IInv, AnswerInv, ToolInv
  <1>4. RemovalInv'
    BY <1>1 DEF IInv, RemovalInv, CopyInv
  <1> QED
    BY <1>2, <1>3, <1>4 DEF IInv

LEMMA RangeAnswerStep == ASSUME IInv, RangeAnswer PROVE IInv'
  <1>1. pc = "captured" /\ call.tool = "range" /\ pc' = "done" /\ UNCHANGED <<call, remote, streamVars, spool, removal>>
    BY DEF RangeAnswer, Answer
  <1>2. CASE exit # "ok"
    BY <1>1, <1>2, OtherErrorStep DEF RangeAnswer, Answer, Refusals
  <1>3. CASE exit = "ok"
    <2> DEFINE max  == call.max
               rest == From(call.seen.data, call.offset)
               data == FirstN(captured, max)
    <2>1. /\ answer'.kind = "range" /\ answer'.data = data
      BY <1>3 DEF RangeAnswer, Answer
    <2>2. answer'.eof <=> total <= max
      <3>1. answer' = [kind |-> "range", data |-> data, eof |-> Eof(max)]
        BY <1>3, Zenon DEF RangeAnswer, Answer
      <3>2. answer'.eof = Eof(max)
        BY <3>1, Zenon
      <3> QED
        BY <3>2, Zenon DEF Eof
    <2>3. /\ call.seen.type = "file" /\ call.seen.data \in Seq(Byte) /\ out = Window(call.seen.data, call.offset, max)
          /\ call.offset \in Nat /\ max \in Nat /\ max <= MaxOutputBytes /\ total = Len(out)
          /\ HasContent(call.met)
          /\ PrefixOf(captured, out, Least(total, MaxOutputBytes)) /\ out \in Seq(Text)
      BY <1>1, <1>3 DEF IInv, CaptureInv, ToolInv, RangeWrites, RangeOf
    <2>4. /\ rest \in Seq(Byte) /\ Len(out) = Least(max + 1, Len(rest))
          /\ \A k \in 1 .. Len(out) : out[k] = rest[k]
      <3> DEFINE d == call.seen.data
                 o == call.offset
                 w == Window(d, o, max)
                 f == From(d, o)
      <3>1. d \in Seq(Byte) /\ o \in Nat /\ max \in Nat /\ out = w /\ rest = f
        BY <2>3
      <3> HIDE DEF d, o, max
      <3>2. f \in Seq(Byte) /\ Len(w) = Least(max + 1, Len(f)) /\ \A k \in 1 .. Len(w) : w[k] = f[k]
        BY <3>1, WindowFacts
      <3> HIDE DEF rest, f, w
      <3> QED
        BY <3>1, <3>2
    <2>5. rest \in Seq(Text)
      BY <2>4, SeqMonotonic DEF Text
    <2>6. /\ data \in Seq(Text) /\ Len(data) = Least(max, Len(captured))
          /\ \A k \in 1 .. Len(data) : data[k] = captured[k]
      BY <2>3, FirstNFacts DEF PrefixOf, Least
    <2>7. /\ FirstN(rest, max) \in Seq(Text) /\ Len(FirstN(rest, max)) = Least(max, Len(rest))
          /\ \A k \in 1 .. Len(FirstN(rest, max)) : FirstN(rest, max)[k] = rest[k]
      BY <2>3, <2>5, FirstNFacts DEF Least
    <2> HIDE DEF rest, data, max
    <2>8. Len(data) = Least(max, Len(rest)) /\ Len(rest) \in Nat /\ Len(captured) = Least(Len(out), MaxOutputBytes)
      BY <2>3, <2>4, <2>5, <2>6 DEF PrefixOf, Least
    <2>9. \A k \in 1 .. Len(data) : data[k] = rest[k]
      <3>1. ASSUME NEW k \in 1 .. Len(data) PROVE data[k] = rest[k]
        <4>1. k \in 1 .. Len(captured) /\ k \in 1 .. Len(out)
          BY <2>3, <2>4, <2>6, <2>8 DEF Least
        <4> QED
          BY <4>1, <2>3, <2>4, <2>6, <2>8 DEF PrefixOf
      <3> QED
        BY <3>1
    <2>10. data = FirstN(rest, max)
      BY <2>6, <2>7, <2>8, <2>9, SeqEqual
    <2>11. total <= max <=> data = rest
      <3>1. total <= max => Len(data) = Len(rest)
        BY <2>3, <2>4, <2>8 DEF Least
      <3>2. data = rest => total <= max
        BY <2>3, <2>4, <2>8 DEF Least
      <3>3. Len(data) = Len(rest) => data = rest
        BY <2>5, <2>6, <2>9, SeqEqual
      <3> QED
        BY <3>1, <3>2, <3>3
    <2>12. answer'.eof <=> answer'.data = rest
      BY <2>1, <2>2, <2>11, Zenon
    <2>13. RangeExact'
      BY <1>1, <2>1, <2>3, <2>10, <2>12 DEF RangeExact, HasContent, rest, max
    <2> QED
      BY <1>1, <2>1, <2>13, AnswerStep DEF SudoOutputExact, RefusalSound, ListComplete
  <1> QED
    BY <1>2, <1>3

LEMMA ListAnswerStep == ASSUME IInv, ListAnswer PROVE IInv'
  <1>1. pc = "captured" /\ call.tool = "list" /\ pc' = "done" /\ UNCHANGED <<call, remote, streamVars, spool, removal>>
    BY DEF ListAnswer, Answer
  <1>2. ASSUME NEW code \in {"remote_path_not_found", "output_limit_exceeded", "remote_protocol_error"},
               answer' = Error(code)
        PROVE  IInv'
    BY <1>1, <1>2, OtherErrorStep DEF Refusals
  <1>3. CASE exit = "ok" /\ ~ListTooLong /\ answer' = [kind |-> "list", count |-> Fields(captured) \div 4]
    <2>1. /\ out \in Seq(Text) /\ total = Len(out) /\ PrefixOf(captured, out, Least(total, MaxOutputBytes))
          /\ \/ call.seen.type = "file" /\ out = <<>>
             \/ call.seen.type = "directory" /\ call.seen.entries \in Nat /\ out = Listing(call.seen.entries)
      BY <1>1, <1>3 DEF IInv, CaptureInv, ToolInv, ListWrites
    <2>2. captured = out
      <3>1. Len(captured) = Len(out)
        BY <1>3, <2>1 DEF ListTooLong, Truncated, PrefixOf, Least
      <3> QED
        BY <2>1, <3>1, SeqEqual DEF PrefixOf
    <2>3. answer'.kind = "list" /\ answer'.count = Fields(out) \div 4
      BY <1>3, <2>2
    <2>4. answer'.count = IF call.seen.type = "directory" THEN call.seen.entries ELSE 0
      <3>1. CASE call.seen.type = "directory" /\ call.seen.entries \in Nat /\ out = Listing(call.seen.entries)
        <4> DEFINE n == call.seen.entries
        <4>1. n \in Nat /\ Fields(out) = 4 * n
          BY <3>1, ListingFacts
        <4> HIDE DEF n
        <4>2. (4 * n) \div 4 = n
          BY <4>1
        <4> QED
          BY <2>3, <3>1, <4>1, <4>2 DEF n
      <3>2. CASE call.seen.type = "file" /\ out = <<>>
        <4>1. { i \in 1 .. Len(out) : out[i] = Nul } = {}
          BY <3>2
        <4>2. Fields(out) = 0
          BY <3>2, <4>1, FS_EmptySet DEF Fields
        <4> QED
          BY <2>3, <3>2, <4>2
      <3> QED
        BY <2>1, <3>1, <3>2
    <2>5. ListComplete'
      BY <1>1, <2>4 DEF ListComplete
    <2> QED
      BY <1>1, <2>3, <2>5, AnswerStep DEF SudoOutputExact, RefusalSound, RangeExact
  <1> QED
    BY <1>2, <1>3 DEF ListAnswer, Answer

LEMMA MarkerFacts == Marker \in Seq(Text) /\ Len(Marker) \in Nat \ {0}
  <1>1. Marker \in Seq(Text)
    BY SeqMonotonic DEF Text
  <1> QED
    BY <1>1

\* Where the marker is in the output of a command that has started, and that a
\* text before it does not contain it.
LEMMA MarkerPlace ==
  ASSUME NEW noise \in Seq(Byte), NEW text \in Seq(Byte), Fresh(noise)
  PROVE  /\ Occurs(noise, Marker) = {}
         /\ Len(noise) \in Occurs(noise \o (Marker \o text), Marker)
         /\ Without(noise \o (Marker \o text), Marker) = noise \o text
  <1> DEFINE tail == Marker \o text
             s == noise \o tail
             h == noise \o Marker
             L == Len(Marker)
             n == Len(noise)
  <1>1. Marker \in Seq(Byte) /\ L \in Nat \ {0} /\ n \in Nat /\ Len(text) \in Nat /\ L = Len(Marker) /\ n = Len(noise)
    OBVIOUS
  <1>2. /\ tail \in Seq(Byte) /\ Len(tail) = L + Len(text)
        /\ \A k \in 1 .. (L + Len(text)) : tail[k] = IF k <= L THEN Marker[k] ELSE text[k - L]
    BY <1>1, ConcatProperties, Zenon
  <1> HIDE DEF tail
  <1>3. /\ s \in Seq(Byte) /\ Len(s) = n + Len(tail)
        /\ \A k \in 1 .. (n + Len(tail)) : s[k] = IF k <= n THEN noise[k] ELSE tail[k - n]
    BY <1>2, ConcatProperties, Zenon
  <1>4. /\ h \in Seq(Byte) /\ Len(h) = n + L
        /\ \A k \in 1 .. (n + L) : h[k] = IF k <= n THEN noise[k] ELSE Marker[k - n]
    BY <1>1, ConcatProperties, Zenon
  <1>5. Find(h, Marker) = n
    BY DEF Fresh
  <1> HIDE DEF s, h, n, L
  <1>6. ASSUME NEW k \in 1 .. (n + L) PROVE h[k] = s[k]
    <2>1. k \in 1 .. (n + Len(tail)) /\ k \in Nat
      BY <1>1, <1>2
    <2>2. CASE k <= n
      BY <1>3, <1>4, <2>1, <2>2
    <2>3. CASE k > n
      <3>1. k - n \in 1 .. (L + Len(text)) /\ k - n <= L
        BY <1>1, <2>1, <2>3
      <3>2. ~(k <= n)
        BY <1>1, <2>1, <2>3
      <3> QED
        BY <1>2, <1>3, <1>4, <2>1, <3>1, <3>2
    <2> QED
      BY <1>1, <2>1, <2>2, <2>3
  <1>7. n \in Occurs(h, Marker)
    <2>1. ASSUME NEW k \in 1 .. L PROVE h[n + k] = Marker[k]
      <3>1. n + k \in 1 .. (n + L) /\ ~(n + k <= n) /\ (n + k) - n = k
        BY <1>1
      <3> QED
        BY <1>4, <3>1
    <2>2. n \in Nat /\ n + Len(Marker) <= Len(h) /\ \A k \in 1 .. Len(Marker) : h[n + k] = Marker[k]
      <3>1. n \in Nat /\ n + Len(Marker) <= Len(h)
        <4>1. n + L <= n + L
          BY <1>1
        <4> QED
          BY <1>1, <1>4, <4>1, Zenon
      <3>2. \A k \in 1 .. Len(Marker) : h[n + k] = Marker[k]
        BY <1>1, <2>1, Zenon
      <3> QED
        BY <3>1, <3>2
    <2>3. h \in Seq(Byte) /\ Marker \in Seq(Byte)
      BY <1>1, <1>4
    <2> QED
      BY <2>2, <2>3, OccursFacts
  <1>8. n \in Occurs(s, Marker) /\ Find(s, Marker) = n
    <2>1. Len(h) <= Len(s) /\ \A k \in 1 .. Len(h) : h[k] = s[k]
      BY <1>1, <1>2, <1>3, <1>4, <1>6
    <2>2. h \in Seq(Byte) /\ Marker \in Seq(Byte) /\ s \in Seq(Byte)
      BY <1>1, <1>3, <1>4
    <2>3. /\ Occurs(h, Marker) = { i \in Occurs(s, Marker) : i + Len(Marker) <= Len(h) }
          /\ Occurs(h, Marker) # {} => Find(h, Marker) = Find(s, Marker)
      BY <2>1, <2>2, PrefixOccurs
    <2> QED
      BY <1>5, <1>7, <2>3
  <1>9. Occurs(noise, Marker) = {}
    <2>1. Len(noise) <= Len(h) /\ \A k \in 1 .. Len(noise) : noise[k] = h[k]
      BY <1>1, <1>4
    <2>2. h \in Seq(Byte) /\ Marker \in Seq(Byte)
      BY <1>1, <1>4
    <2>3. Occurs(noise, Marker) = { i \in Occurs(h, Marker) : i + Len(Marker) <= Len(noise) }
      BY <2>1, <2>2, PrefixOccurs
    <2>4. \A i \in Occurs(h, Marker) : n <= i
      BY <1>5, <1>7, <2>2, FindFacts
    <2>5. \A i \in Occurs(h, Marker) : i \in Nat
      BY DEF Occurs
    <2> QED
      BY <1>1, <2>3, <2>4, <2>5
  <1>10. Without(s, Marker) = noise \o text
    <2> DEFINE w == Without(s, Marker)
               v == noise \o text
    <2>1. /\ w \in Seq(Byte) /\ Len(w) = Len(s) - L
          /\ \A k \in 1 .. (Len(s) - L) : w[k] = IF k <= n THEN s[k] ELSE s[k + L]
      <3>1. s \in Seq(Byte) /\ Marker \in Seq(Byte) /\ Occurs(s, Marker) # {}
        BY <1>1, <1>3, <1>8
      <3> QED
        BY <1>1, <1>8, <3>1, WithoutFacts
    <2>2. /\ v \in Seq(Byte) /\ Len(v) = n + Len(text)
          /\ \A k \in 1 .. (n + Len(text)) : v[k] = IF k <= n THEN noise[k] ELSE text[k - n]
      BY <1>1, ConcatProperties, Zenon
    <2> HIDE DEF w, v
    <2>3. Len(w) = Len(v) /\ Len(s) - L = n + Len(text)
      BY <1>1, <1>2, <1>3, <2>1, <2>2
    <2>4. ASSUME NEW k \in 1 .. Len(w) PROVE w[k] = v[k]
      <3>1. CASE k <= n
        <4>1. w[k] = s[k] /\ v[k] = noise[k]
          BY <2>1, <2>2, <2>3, <3>1
        <4>2. k \in 1 .. (n + Len(tail))
          BY <1>1, <1>2, <2>1, <2>3, <3>1
        <4> QED
          BY <1>3, <3>1, <4>1, <4>2
      <3>2. CASE k > n
        <4>1. w[k] = s[k + L] /\ v[k] = text[k - n]
          BY <1>1, <2>1, <2>2, <2>3, <3>2
        <4>2. s[k + L] = tail[(k + L) - n]
          BY <1>1, <1>2, <1>3, <2>1, <2>3, <3>2
        <4>3. tail[(k + L) - n] = text[((k + L) - n) - L]
          <5>1. (k + L) - n \in 1 .. (L + Len(text)) /\ ~((k + L) - n <= L)
            BY <1>1, <2>1, <2>3, <3>2, SMTT(40)
          <5> QED
            BY <1>2, <5>1
        <4>4. ((k + L) - n) - L = k - n
          BY <1>1
        <4> QED
          BY <4>1, <4>2, <4>3, <4>4
      <3> QED
        BY <1>1, <3>1, <3>2
    <2> QED
      BY <2>1, <2>2, <2>3, <2>4, SeqEqual DEF w, v
  <1> QED
    BY <1>1, <1>8, <1>9, <1>10 DEF s, tail

LEMMA RefusalStep == ASSUME IInv, Refusal PROVE IInv'
  <1>1. /\ pc = "captured" /\ call.tool = "sudo" /\ Occurs(captured, Marker) = {} /\ pc' = "done"
        /\ UNCHANGED <<call, remote, streamVars, spool, removal>> /\ exit' = exit
    BY DEF Refusal, Answer, MarkerSeen, streamVars
  <1>2. \E code \in Refusals \cup {"sudo_start_timeout"} : answer' = Error(code)
    BY DEF Refusal, Answer
  <1>3. ASSUME call.started, exit # "killed" PROVE Len(call.noise) + Len(Marker) > MaxOutputBytes
    <2>1. /\ out \in Seq(Text) /\ total = Len(out) /\ PrefixOf(captured, out, Least(total, MaxOutputBytes))
          /\ call.noise \in Seq(Byte) /\ call.text \in Seq(Byte) /\ Fresh(call.noise)
      BY <1>1 DEF IInv, CaptureInv, ToolInv, SudoWrites
    <2>2. out = call.noise \o (Marker \o call.text)
      BY <1>1, <1>3 DEF IInv, ToolInv, SudoWrites
    <2>3. Len(call.noise) \in Occurs(out, Marker)
      BY <2>1, <2>2, MarkerPlace
    <2>4. captured \in Seq(Text) /\ Len(captured) = Least(Len(out), MaxOutputBytes)
          /\ \A k \in 1 .. Len(captured) : captured[k] = out[k]
      BY <2>1 DEF PrefixOf
    <2>5. Len(captured) <= Len(out) /\ Len(out) \in Nat /\ Len(call.noise) \in Nat
      BY <2>1, <2>4 DEF Least
    <2>6. Occurs(captured, Marker) = { i \in Occurs(out, Marker) : i + Len(Marker) <= Len(captured) }
      BY <2>1, <2>4, <2>5, MarkerFacts, PrefixOccurs
    <2>7. ~(Len(call.noise) + Len(Marker) <= Len(captured))
      BY <1>1, <2>3, <2>6
    <2>8. Len(call.noise) + Len(Marker) <= Len(out)
      BY <2>1, <2>3, MarkerFacts, OccursFacts
    <2> QED
      BY <2>4, <2>5, <2>7, <2>8, MarkerFacts DEF Least
  <1>4. RefusalSound'
    BY <1>1, <1>3 DEF RefusalSound
  <1>5. TypeRefusable'
    BY <1>1 DEF TypeRefusable
  <1> QED
    BY <1>1, <1>2, <1>4, <1>5, ErrorStep

\* A prefix that holds the marker loses the same bytes as the whole.
LEMMA WithoutPrefix ==
  ASSUME NEW s \in Seq(Text), NEW t, NEW n \in Nat, NEW l \in Nat, n = Least(Len(s), l), PrefixOf(t, s, n),
         Occurs(t, Marker) # {}
  PROVE  /\ Occurs(s, Marker) # {} /\ Without(t, Marker) = FirstN(Without(s, Marker), l - Len(Marker))
         /\ Len(Without(t, Marker)) = n - Len(Marker)
  <1> DEFINE w == Without(s, Marker)
             v == Without(t, Marker)
             L == Len(Marker)
             f == Find(s, Marker)
             p == FirstN(w, l - L)
  <1>1. t \in Seq(Text) /\ Len(t) = n /\ (\A k \in 1 .. Len(t) : t[k] = s[k]) /\ Marker \in Seq(Text)
    BY MarkerFacts DEF PrefixOf
  <1>2. Len(t) <= Len(s) /\ n <= Len(s) /\ n <= l /\ Len(s) \in Nat
    BY <1>1 DEF Least
  <1>3. Occurs(s, Marker) # {} /\ Find(t, Marker) = f
    BY <1>1, <1>2, PrefixOccurs
  <1>4. L \in Nat \ {0} /\ L = Len(Marker)
    BY MarkerFacts
  <1>5. f \in Nat /\ f + L <= n
    <2>1. f \in Occurs(t, Marker)
      BY <1>1, <1>3, FindFacts
    <2> QED
      BY <1>1, <2>1, OccursFacts
  <1>6. /\ w \in Seq(Text) /\ Len(w) = Len(s) - L
        /\ \A k \in 1 .. (Len(s) - L) : w[k] = IF k <= f THEN s[k] ELSE s[k + L]
    BY <1>1, <1>3, WithoutFacts
  <1>7. /\ v \in Seq(Text) /\ Len(v) = n - L
        /\ \A k \in 1 .. (n - L) : v[k] = IF k <= f THEN t[k] ELSE t[k + L]
    BY <1>1, <1>3, WithoutFacts
  <1> HIDE DEF w, v, f, L
  <1>8. l - L \in Nat
    BY <1>2, <1>4, <1>5
  <1>9. p \in Seq(Text) /\ Len(p) = n - L /\ \A k \in 1 .. (n - L) : p[k] = w[k]
    <2>1. /\ p \in Seq(Text) /\ Len(p) = IF l - L < Len(w) THEN l - L ELSE Len(w)
          /\ \A k \in 1 .. Len(p) : p[k] = w[k]
      BY <1>6, <1>8, FirstNFacts
    <2> HIDE DEF p
    <2>2. Len(p) = n - L
      BY <1>2, <1>4, <1>6, <2>1, SMTT(40) DEF Least
    <2> QED
      BY <2>1, <2>2
  <1> HIDE DEF p
  <1>10. ASSUME NEW k \in 1 .. (n - L) PROVE v[k] = p[k]
    <2>1. /\ k \in 1 .. (Len(s) - L) /\ k \in 1 .. Len(t) /\ k + L \in 1 .. Len(t)
      BY <1>1, <1>2, <1>4, SMTT(40)
    <2>2. t[k] = s[k] /\ t[k + L] = s[k + L]
      BY <1>1, <2>1
    <2> QED
      BY <1>6, <1>7, <1>9, <2>1, <2>2
  <1>11. v = p
    BY <1>7, <1>9, <1>10, SeqEqual
  <1> QED
    BY <1>3, <1>4, <1>7, <1>11 DEF v, p, w, L

LEMMA SudoAnswerStep == ASSUME IInv, SudoAnswer PROVE IInv'
  <1> DEFINE text == Without(out, Marker)
  <1>1. /\ pc = "captured" /\ call.tool = "sudo" /\ Occurs(captured, Marker) # {} /\ pc' = "done"
        /\ UNCHANGED <<call, remote, streamVars, spool, removal>> /\ exit' = exit /\ out' = out /\ spool' = spool
        /\ thread = IF spool = None THEN "none" ELSE "ended"
    BY DEF SudoAnswer, Answer, MarkerSeen, streamVars
  <1>2. /\ out \in Seq(Text) /\ total = Len(out) /\ Len(out) \in Nat
        /\ PrefixOf(captured, out, Least(Len(out), MaxOutputBytes)) /\ Least(Len(out), MaxOutputBytes) \in Nat
        /\ call.noise \in Seq(Byte) /\ call.text \in Seq(Byte) /\ Fresh(call.noise)
        /\ exit # "killed" => out = IF call.started THEN call.noise \o (Marker \o call.text) ELSE call.noise
    <2>1. /\ out \in Seq(Text) /\ total = Len(out) /\ PrefixOf(captured, out, Least(total, MaxOutputBytes)) /\ SudoWrites
      BY <1>1 DEF IInv, CaptureInv, ToolInv
    <2>2. Least(Len(out), MaxOutputBytes) \in Nat
      BY <2>1 DEF Least
    <2>3. Len(out) \in Nat
      BY <2>1
    <2> QED
      BY <2>1, <2>2, <2>3, Zenon DEF SudoWrites
  <1>3. /\ Occurs(out, Marker) # {} /\ Without(captured, Marker) = FirstN(text, MaxOutputBytes - Len(Marker))
        /\ Len(Without(captured, Marker)) = Least(Len(out), MaxOutputBytes) - Len(Marker)
    BY <1>1, <1>2, WithoutPrefix
  <1>4. Len(text) = Len(out) - Len(Marker)
    BY <1>2, <1>3, MarkerFacts, WithoutFacts
  <1>5. /\ answer'.kind = "result" /\ answer'.raw = Without(captured, Marker) /\ answer'.total = total - Len(Marker)
        /\ answer'.truncated = Truncated
    <2>1. answer' = Cleaned /\ MarkerSeen
      BY DEF SudoAnswer, Answer
    <2> QED
      BY <2>1, Zenon DEF Cleaned
  <1>6. Truncated <=> answer'.total > Len(answer'.raw)
    <2>1. Len(captured) = Least(Len(out), MaxOutputBytes) /\ Len(Marker) \in Nat
      BY <1>2, MarkerFacts DEF PrefixOf
    <2> QED
      BY <1>2, <1>3, <1>5, <2>1 DEF Truncated, Least
  <1>7. answer'.truncated <=> answer'.total > Len(answer'.raw)
    BY <1>5, <1>6, Zenon
  <1>8. exit # "killed" => text = call.noise \o call.text
    <2>1. Occurs(call.noise, Marker) = {} /\ Without(call.noise \o (Marker \o call.text), Marker) = call.noise \o call.text
      BY <1>2, MarkerPlace
    <2> QED
      BY <1>2, <1>3, <2>1
  <1>9. spool \in {None, text}
    BY <1>1 DEF IInv, RemovalInv
  <1>10. SudoOutputExact'
    BY <1>1, <1>2, <1>3, <1>4, <1>5, <1>7, <1>8, <1>9 DEF SudoOutputExact
  <1> QED
    BY <1>1, <1>5, <1>10, AnswerStep DEF RefusalSound, RangeExact, ListComplete

LEMMA FailureStep == ASSUME IInv, CaptureFails \/ Abandoned PROVE IInv'
  <1>1. pc' = "done" /\ UNCHANGED <<remote, streamVars, spool, removal>>
    BY DEF CaptureFails, Abandoned, Answer
  <1>2. \E code \in {"internal_error", "cancelled", "connection_lost"} : answer' = Error(code)
    BY DEF CaptureFails, Abandoned, Answer
  <1> QED
    BY <1>1, <1>2, OtherErrorStep DEF Refusals

-----------------------------------------------------------------------------
(* _remove_marker_from_file.                                               *)

\* A step of the worker thread; the call may have been answered with an error.
LEMMA ThreadStep ==
  ASSUME IInv, UNCHANGED <<pc, call, remote, streamVars, answer>>, pc \in {"captured", "done", "crashed"},
         answer.kind # "result", thread' # "none", RemovalInv'
  PROVE  IInv'
  <1>1. /\ pc' = pc /\ call' = call /\ remote' = remote /\ answer' = answer
        /\ out' = out /\ exit' = exit /\ captured' = captured /\ total' = total
    BY DEF streamVars
  <1>2. CaptureInv'
    BY <1>1 DEF IInv, CaptureInv, PrefixOf
  <1>3. AnswerInv'
    BY <1>1 DEF IInv, AnswerInv
  <1>4. ToolInv'
    BY <1>1 DEF IInv, ToolInv, SudoWrites, RangeWrites, ListWrites, RangeOf, Fresh
  <1>5. SudoOutputExact' /\ RangeExact' /\ ListComplete'
    BY <1>1 DEF IInv, SudoOutputExact, RangeExact, ListComplete
  <1>6. RefusalSound'
    BY <1>1 DEF IInv, RefusalSound
  <1> QED
    BY <1>2, <1>3, <1>4, <1>5, <1>6 DEF IInv

LEMMA StartRemovalStep == ASSUME IInv, StartRemoval PROVE IInv'
  <1>1. /\ pc = "captured" /\ Occurs(captured, Marker) # {} /\ spool # None /\ thread = "none" /\ thread' = "copy"
        /\ tmp' = <<>> /\ UNCHANGED <<pc, call, remote, streamVars, answer>>
        /\ spool' = spool /\ pos' = pos /\ pending' = pending /\ out' = out /\ pc' = pc
    BY DEF StartRemoval, MarkerSeen, streamVars
  <1>2. found' = found /\ ~found /\ pos = 0 /\ pending = <<>>
    BY <1>1 DEF StartRemoval, IInv, RemovalInv
  <1>3. spool = out /\ out \in Seq(Text) /\ PrefixOf(captured, out, Least(Len(out), MaxOutputBytes))
    BY <1>1 DEF IInv, CaptureInv
  <1>4. Occurs(out, Marker) # {}
    <2>1. Least(Len(out), MaxOutputBytes) \in Nat
      BY <1>3 DEF Least
    <2> QED
      BY <1>1, <1>3, <2>1, WithoutPrefix
  <1>5. \A j \in Occurs(out, Marker) : j + Len(Marker) > pos
    BY <1>2, MarkerFacts DEF Occurs
  <1>6. CopyInv'
    BY <1>1, <1>2, <1>3, <1>5 DEF CopyInv, Split, Starts, At
  <1>7. RemovalInv'
    BY <1>1, <1>3, <1>4, <1>6 DEF RemovalInv
  <1>8. answer.kind # "result"
    BY <1>1 DEF IInv, AnswerInv, NoAnswer
  <1> QED
    BY <1>1, <1>7, <1>8, ThreadStep

\* What is held back and the next chunk, and any cut of them.
LEMMA Joined ==
  ASSUME NEW t, NEW p, NEW s, NEW n \in Nat, Split(t, p, s, n),
         NEW c \in Seq(Text), At(c, s, n)
  PROVE  /\ p \o c \in Seq(Text) /\ Len(t) + Len(p \o c) = n + Len(c) /\ Len(p \o c) = Len(p) + Len(c)
         /\ t \in Seq(Text) /\ p \in Seq(Text)
         /\ At(p \o c, s, Len(t))
  <1>1. /\ t \in Seq(Text) /\ p \in Seq(Text) /\ Len(t) + Len(p) = n /\ Len(t) \in Nat /\ Len(p) \in Nat /\ Len(c) \in Nat
        /\ At(p, s, Len(t))
    BY DEF Split
  <1>2. /\ p \o c \in Seq(Text) /\ Len(p \o c) = Len(p) + Len(c)
        /\ \A k \in 1 .. (Len(p) + Len(c)) : (p \o c)[k] = IF k <= Len(p) THEN p[k] ELSE c[k - Len(p)]
    BY <1>1, ConcatProperties, Zenon
  <1>3. ASSUME NEW k \in 1 .. (Len(p) + Len(c)) PROVE (p \o c)[k] = s[Len(t) + k]
    <2>1. CASE k <= Len(p)
      BY <1>1, <1>2, <2>1 DEF At
    <2>2. CASE ~(k <= Len(p))
      <3>1. k - Len(p) \in 1 .. Len(c) /\ n + (k - Len(p)) = Len(t) + k
        <4>1. /\ Len(t) \in Nat /\ Len(p) \in Nat /\ Len(c) \in Nat /\ n = Len(t) + Len(p) /\ k \in Nat
              /\ k <= Len(p) + Len(c) /\ ~(k <= Len(p))
          BY <1>1, <2>2
        <4> QED
          BY <4>1
      <3> QED
        BY <1>2, <2>2, <3>1 DEF At
    <2> QED
      BY <2>1, <2>2
  <1>4. Len(t) + Len(p \o c) = n + Len(c)
    <2>1. Len(t) \in Nat /\ Len(p) \in Nat /\ Len(c) \in Nat /\ n = Len(t) + Len(p) /\ Len(p \o c) = Len(p) + Len(c)
      BY <1>1, <1>2
    <2> QED
      BY <2>1
  <1> QED
    BY <1>1, <1>2, <1>3, <1>4 DEF At

LEMMA Cut ==
  ASSUME NEW t \in Seq(Text), NEW b \in Seq(Text), NEW s, NEW i \in 0 .. Len(b),
         Starts(t, s), At(b, s, Len(t))
  PROVE  Split(t \o FirstN(b, i), From(b, i), s, Len(t) + Len(b)) /\ Len(t \o FirstN(b, i)) = Len(t) + i
  <1> DEFINE a == FirstN(b, i)
             z == From(b, i)
             m == Len(t)
  <1>1. m \in Nat /\ Len(b) \in Nat /\ i \in Nat /\ i <= Len(b) /\ m = Len(t)
    OBVIOUS
  <1>2. a \in Seq(Text) /\ Len(a) = i /\ \A k \in 1 .. i : a[k] = b[k]
    BY <1>1, FirstNFacts
  <1>3. z \in Seq(Text) /\ Len(z) = Len(b) - i /\ \A k \in 1 .. (Len(b) - i) : z[k] = b[i + k]
    BY <1>1, FromFacts
  <1> HIDE DEF a, z, m
  <1>4. /\ t \o a \in Seq(Text) /\ Len(t \o a) = m + i
        /\ \A k \in 1 .. (m + i) : (t \o a)[k] = IF k <= m THEN t[k] ELSE a[k - m]
    <2>1. t \in Seq(Text) /\ a \in Seq(Text)
      BY <1>2
    <2>2. /\ t \o a \in Seq(Text) /\ Len(t \o a) = Len(t) + Len(a)
          /\ \A k \in 1 .. (Len(t) + Len(a)) : (t \o a)[k] = IF k <= Len(t) THEN t[k] ELSE a[k - Len(t)]
      BY <2>1, ConcatProperties, Zenon
    <2>3. Len(t) = m /\ Len(a) = i
      BY <1>1, <1>2
    <2> QED
      BY <2>2, <2>3, Zenon
  <1>5. ASSUME NEW k \in 1 .. (m + i) PROVE (t \o a)[k] = s[k]
    <2>1. CASE k <= m
      BY <1>1, <1>4, <2>1 DEF Starts
    <2>2. CASE ~(k <= m)
      <3>1. k - m \in 1 .. i /\ k - m \in 1 .. Len(b) /\ m + (k - m) = k
        BY <1>1, <2>2
      <3> QED
        BY <1>1, <1>2, <1>4, <2>2, <3>1 DEF At
    <2> QED
      BY <2>1, <2>2
  <1>6. ASSUME NEW k \in 1 .. Len(z) PROVE z[k] = s[(m + i) + k]
    <2>1. k \in 1 .. (Len(b) - i) /\ i + k \in 1 .. Len(b) /\ m + (i + k) = (m + i) + k
      <3>1. m \in Nat /\ Len(b) \in Nat /\ i \in Nat /\ i <= Len(b) /\ Len(z) = Len(b) - i /\ k \in Nat \ {0} /\ k <= Len(z)
        BY <1>1, <1>3
      <3> QED
        BY <3>1
    <2>2. z[k] = b[i + k] /\ b[i + k] = s[m + (i + k)]
      BY <1>1, <1>3, <2>1 DEF At
    <2> QED
      BY <2>1, <2>2
  <1>7. (m + i) + Len(z) = m + Len(b)
    BY <1>1, <1>3
  <1> QED
    BY <1>1, <1>3, <1>4, <1>5, <1>6, <1>7, Zenon DEF Split, Starts, At, a, z

LEMMA ChunkFacts ==
  ASSUME NEW s \in Seq(Text), NEW n \in Nat, n < Len(s)
  PROVE  LET c == FirstN(From(s, n), Chunk) IN
         /\ c \in Seq(Text) /\ Len(c) \in Nat \ {0} /\ n + Len(c) <= Len(s)
         /\ At(c, s, n)
  <1> DEFINE r == From(s, n)
             c == FirstN(r, Chunk)
  <1>1. r \in Seq(Text) /\ Len(r) = Len(s) - n /\ \A k \in 1 .. Len(r) : r[k] = s[n + k]
    BY FromFacts
  <1> HIDE DEF r
  <1>2. c \in Seq(Text) /\ Len(c) = Least(Chunk, Len(r)) /\ \A k \in 1 .. Len(c) : c[k] = r[k]
    BY <1>1, FirstNFacts DEF Least
  <1> HIDE DEF c
  <1>3. Len(c) \in Nat \ {0} /\ Len(c) <= Len(r) /\ n + Len(c) <= Len(s)
    BY <1>1, <1>2, SMTT(40) DEF Least
  <1>4. ASSUME NEW k \in 1 .. Len(c) PROVE c[k] = s[n + k]
    <2>1. k \in 1 .. Len(r)
      BY <1>1, <1>3
    <2> QED
      BY <1>1, <1>2, <2>1
  <1> QED
    BY <1>2, <1>3, <1>4 DEF c, r, At

LEMMA MarkerOccurs ==
  ASSUME NEW s \in Seq(Text), NEW i
  PROVE  i \in Occurs(s, Marker) <=>
             i \in Nat /\ i + Len(Marker) <= Len(s) /\ \A k \in 1 .. Len(Marker) : s[i + k] = Marker[k]
  <1>1. Marker \in Seq(Text)
    BY MarkerFacts
  <1> QED
    BY <1>1, OccursFacts

LEMMA MarkerFind ==
  ASSUME NEW s \in Seq(Text), Occurs(s, Marker) # {}
  PROVE  /\ Find(s, Marker) \in Occurs(s, Marker) /\ Find(s, Marker) \in Nat
         /\ \A j \in Occurs(s, Marker) : Find(s, Marker) <= j
  <1>1. Marker \in Seq(Text)
    BY MarkerFacts
  <1>2. Find(s, Marker) \in Occurs(s, Marker) /\ \A j \in Occurs(s, Marker) : Find(s, Marker) <= j
    BY <1>1, FindFacts
  <1>3. Find(s, Marker) \in Nat
    BY <1>2, MarkerOccurs
  <1> QED
    BY <1>2, <1>3

\* Occurrences in a window of s, the first t of which lie before it.
LEMMA WindowOccurs ==
  ASSUME NEW s \in Seq(Text), NEW b \in Seq(Text), NEW t \in Nat, t + Len(b) <= Len(s),
         At(b, s, t), NEW i \in Nat
  PROVE  i \in Occurs(b, Marker) <=> t + i \in Occurs(s, Marker) /\ i + Len(Marker) <= Len(b)
  <1> DEFINE L == Len(Marker)
  <1>1. L \in Nat \ {0} /\ Marker \in Seq(Text) /\ Len(s) \in Nat /\ Len(b) \in Nat
    BY MarkerFacts
  <1>2. i \in Occurs(b, Marker) <=> i \in Nat /\ i + L <= Len(b) /\ \A k \in 1 .. L : b[i + k] = Marker[k]
    BY MarkerOccurs, Zenon
  <1>3. t + i \in Occurs(s, Marker) <=> t + i \in Nat /\ (t + i) + L <= Len(s) /\ \A k \in 1 .. L : s[(t + i) + k] = Marker[k]
    BY MarkerOccurs, Zenon
  <1>10. L = Len(Marker)
    OBVIOUS
  <1> HIDE DEF L
  <1>4. ASSUME i + L <= Len(b) PROVE (t + i) + L <= Len(s) /\ \A k \in 1 .. L : b[i + k] = s[(t + i) + k]
    <2>1. (t + i) + L <= Len(s)
      BY <1>1, <1>4
    <2>2. ASSUME NEW k \in 1 .. L PROVE b[i + k] = s[(t + i) + k]
      <3>1. i + k \in 1 .. Len(b) /\ t + (i + k) = (t + i) + k
        BY <1>1, <1>4
      <3> QED
        BY <3>1 DEF At
    <2> QED
      BY <2>1, <2>2
  <1>5. t + i \in Nat
    OBVIOUS
  <1>6. ASSUME i + L <= Len(b)
        PROVE  (\A k \in 1 .. L : b[i + k] = Marker[k]) <=> (\A k \in 1 .. L : s[(t + i) + k] = Marker[k])
    BY <1>4, <1>6, Zenon
  <1> QED
    BY <1>2, <1>3, <1>4, <1>5, <1>6, <1>10, Zenon

\* The chunk that is read behind the first n members.
NextChunk(c, s, n) ==
    /\ s \in Seq(Text) /\ c \in Seq(Text) /\ n \in Nat
    /\ Len(s) \in Nat /\ Len(c) \in Nat \ {0} /\ n + Len(c) <= Len(s) /\ At(c, s, n)

\* The turns of the loop after the marker.
LEMMA AfterMarker ==
  ASSUME NEW s, NEW n, NEW c, NextChunk(c, s, n), Occurs(s, Marker) # {}, Find(s, Marker) + Len(Marker) <= n,
         NEW t, NEW p, Split(t, p, Without(s, Marker), n - Len(Marker))
  PROVE  Split(t \o (p \o c), <<>>, Without(s, Marker), (n + Len(c)) - Len(Marker))
  <1> DEFINE L == Len(Marker)
             W == Without(s, Marker)
             F == Find(s, Marker)
             b == p \o c
             q == n - L
  <1>1. /\ L \in Nat \ {0} /\ Marker \in Seq(Text) /\ s \in Seq(Text) /\ c \in Seq(Text)
        /\ Len(s) \in Nat /\ Len(c) \in Nat /\ n \in Nat /\ n + Len(c) <= Len(s)
    BY MarkerFacts DEF NextChunk
  <1>2. F \in Nat /\ F + L <= n
    BY <1>1, MarkerFind
  <1>3. \A k \in 1 .. (Len(s) - L) : W[k] = IF k <= F THEN s[k] ELSE s[k + L]
    BY <1>1, WithoutFacts
  <1>4. Split(t, p, W, q)
    OBVIOUS
  <1> HIDE DEF L, W, F
  <1>5. q \in Nat /\ q + L = n
    BY <1>1, <1>2
  <1> HIDE DEF q
  <1>6. ASSUME NEW k \in 1 .. Len(c) PROVE c[k] = W[q + k]
    <2>1. q + k \in 1 .. (Len(s) - L) /\ ~(q + k <= F) /\ (q + k) + L = n + k
      BY <1>1, <1>2, <1>5
    <2> QED
      BY <1>3, <2>1 DEF NextChunk, At
  <1>7. /\ b \in Seq(Text) /\ Len(t) + Len(b) = q + Len(c) /\ t \in Seq(Text)
        /\ At(b, W, Len(t))
    <2>1. c \in Seq(Text) /\ q \in Nat /\ At(c, W, q)
      BY <1>1, <1>5, <1>6 DEF At
    <2> QED
      BY <1>4, <2>1, Joined
  <1>8. Starts(t, W)
    BY <1>4 DEF Split
  <1> HIDE DEF b
  <1>9. /\ t \o b \in Seq(Text) /\ Len(t \o b) = Len(t) + Len(b)
        /\ \A k \in 1 .. (Len(t) + Len(b)) : (t \o b)[k] = IF k <= Len(t) THEN t[k] ELSE b[k - Len(t)]
    <2>1. t \in Seq(Text) /\ b \in Seq(Text)
      BY <1>7
    <2> QED
      BY <2>1, ConcatProperties, Zenon
  <1>10. ASSUME NEW k \in 1 .. Len(t \o b) PROVE (t \o b)[k] = W[k]
    <2>1. Len(t) \in Nat /\ Len(b) \in Nat /\ k \in 1 .. (Len(t) + Len(b))
      BY <1>7, <1>9
    <2>2. CASE k <= Len(t)
      BY <1>8, <1>9, <2>1, <2>2 DEF Starts
    <2>3. CASE ~(k <= Len(t))
      <3>1. k - Len(t) \in 1 .. Len(b) /\ Len(t) + (k - Len(t)) = k
        BY <2>1, <2>3
      <3> QED
        BY <1>7, <1>9, <2>1, <2>3, <3>1 DEF At
    <2> QED
      BY <2>2, <2>3
  <1>11. Len(t \o b) + 0 = (n + Len(c)) - L
    <2>1. Len(t \o b) = q + Len(c)
      BY <1>5, <1>7, <1>9
    <2>2. q \in Nat /\ q + L = n /\ L \in Nat /\ Len(c) \in Nat
      BY <1>1, <1>5
    <2> QED
      BY <2>1, <2>2
  <1>12. Split(t \o b, <<>>, W, (n + Len(c)) - L)
    BY <1>9, <1>10, <1>11 DEF Split, Starts, At
  <1> QED
    BY <1>12 DEF L, W, b

\* The part read so far, until the marker is found.
Unfound(t, p, s, n) ==
    /\ Split(t, p, s, n)
    /\ t = <<>> \/ Len(p) = Len(Marker)
    /\ \A j \in Occurs(s, Marker) : j + Len(Marker) > n

\* What the search of one turn sees: the occurrences that end in the new chunk.
Buffer(b, t, p, c, s, n) ==
    /\ b \in Seq(Text) /\ t \in Seq(Text) /\ p \in Seq(Text)
    /\ Len(b) = Len(p) + Len(c) /\ Len(t) + Len(p) = n /\ Len(t) + Len(b) = n + Len(c)
    /\ Starts(t, s) /\ At(b, s, Len(t))
    /\ \A i \in Occurs(b, Marker) : Len(t) + i \in Occurs(s, Marker)
    /\ \A j \in Occurs(s, Marker) :
           j + Len(Marker) <= n + Len(c) => j >= Len(t) /\ j - Len(t) \in Occurs(b, Marker)
LEMMA BufferFacts ==
  ASSUME NEW s, NEW n, NEW c, NextChunk(c, s, n), NEW t, NEW p, Unfound(t, p, s, n), NEW b, b = p \o c
  PROVE  Buffer(b, t, p, c, s, n)
  <1> DEFINE L == Len(Marker)
  <1>1. /\ L \in Nat \ {0} /\ L = Len(Marker) /\ Len(s) \in Nat /\ Len(c) \in Nat /\ n \in Nat
        /\ s \in Seq(Text) /\ c \in Seq(Text) /\ n + Len(c) <= Len(s)
    BY MarkerFacts DEF NextChunk
  <1>2. /\ Split(t, p, s, n) /\ (t = <<>> \/ Len(p) = L)
        /\ \A j \in Occurs(s, Marker) : j + L > n
    BY DEF Unfound
  <1>3. /\ b \in Seq(Text) /\ Len(t) + Len(b) = n + Len(c) /\ Len(b) = Len(p) + Len(c)
        /\ t \in Seq(Text) /\ p \in Seq(Text)
        /\ At(b, s, Len(t))
    <2>1. c \in Seq(Text) /\ n \in Nat /\ At(c, s, n)
      BY DEF NextChunk
    <2> QED
      BY <1>2, <2>1, Joined
  <1>4. Len(t) + Len(p) = n /\ Starts(t, s)
    BY <1>2 DEF Split
  <1> HIDE DEF L
  <1>5. Len(t) \in Nat /\ Len(p) \in Nat /\ Len(b) \in Nat /\ Len(t) + Len(b) <= Len(s)
    <2>1. Len(t) \in Nat /\ Len(p) \in Nat /\ Len(b) \in Nat
      BY <1>3
    <2>2. Len(t) + Len(b) = n + Len(c) /\ n + Len(c) <= Len(s)
      BY <1>1, <1>3
    <2> QED
      BY <2>1, <2>2
  <1>6. ASSUME NEW i \in Nat
        PROVE  i \in Occurs(b, Marker) <=> Len(t) + i \in Occurs(s, Marker) /\ i + Len(Marker) <= Len(b)
    <2>1. s \in Seq(Text) /\ b \in Seq(Text) /\ Len(t) \in Nat /\ Len(t) + Len(b) <= Len(s) /\ At(b, s, Len(t))
      BY <1>1, <1>3, <1>5
    <2> QED
      BY <2>1, WindowOccurs, Zenon
  <1>7. ASSUME NEW i \in Occurs(b, Marker) PROVE Len(t) + i \in Occurs(s, Marker)
    <2>1. i \in Nat
      BY <1>3, MarkerOccurs
    <2> QED
      BY <1>6, <2>1
  <1>8. ASSUME NEW j \in Occurs(s, Marker), j + L <= n + Len(c)
        PROVE  j >= Len(t) /\ j - Len(t) \in Occurs(b, Marker)
    <2> DEFINE i == j - Len(t)
    <2>1. j \in Nat /\ j + L > n
      BY <1>2 DEF Occurs
    <2>2. j >= Len(t)
      <3>1. t = <<>> => Len(t) = 0
        OBVIOUS
      <3>2. CASE t = <<>>
        BY <2>1, <3>1, <3>2
      <3>3. CASE Len(p) = L
        <4>1. Len(t) + L = n
          BY <1>4, <3>3
        <4> QED
          BY <1>1, <1>5, <2>1, <4>1
      <3> QED
        BY <1>2, <3>2, <3>3
    <2>3. i \in Nat /\ Len(t) + i = j /\ i + L <= Len(b)
      <3>1. Len(t) + Len(b) = n + Len(c)
        BY <1>3
      <3> QED
        BY <1>1, <1>5, <1>8, <2>1, <2>2, <3>1
    <2> HIDE DEF i
    <2>4. i \in Occurs(b, Marker)
      BY <1>1, <1>6, <2>3
    <2> QED
      BY <2>2, <2>4 DEF i
  <1>9. \A j \in Occurs(s, Marker) :
                j + L <= n + Len(c) => j >= Len(t) /\ j - Len(t) \in Occurs(b, Marker)
    BY <1>8
  <1> QED
    BY <1>1, <1>3, <1>4, <1>7, <1>9, Zenon DEF Buffer

\* A turn that does not find the marker.
LEMMA NotInBuffer ==
  ASSUME NEW s, NEW n, NEW c, NextChunk(c, s, n), NEW t, NEW p, Unfound(t, p, s, n), NEW b, Buffer(b, t, p, c, s, n),
         Occurs(b, Marker) = {}, NEW safe, safe = IF Len(b) > Len(Marker) THEN Len(b) - Len(Marker) ELSE 0
  PROVE  Unfound(t \o FirstN(b, safe), From(b, safe), s, n + Len(c))
  <1> DEFINE L == Len(Marker)
  <1>1. /\ L \in Nat \ {0} /\ L = Len(Marker) /\ Len(s) \in Nat /\ Len(c) \in Nat \ {0} /\ n \in Nat
        /\ s \in Seq(Text)
    BY MarkerFacts DEF NextChunk
  <1>2. /\ b \in Seq(Text) /\ t \in Seq(Text) /\ p \in Seq(Text)
        /\ Len(b) = Len(p) + Len(c) /\ Len(t) + Len(p) = n /\ Len(t) + Len(b) = n + Len(c)
        /\ Starts(t, s)
        /\ At(b, s, Len(t))
        /\ \A j \in Occurs(s, Marker) :
                j + L <= n + Len(c) => j >= Len(t) /\ j - Len(t) \in Occurs(b, Marker)
    BY Zenon DEF Buffer
  <1>3. (t = <<>> \/ Len(p) = L) /\ Occurs(b, Marker) = {} /\ safe = IF Len(b) > L THEN Len(b) - L ELSE 0
    BY DEF Unfound
  <1> HIDE DEF L
  <1>4. Len(t) \in Nat /\ Len(p) \in Nat /\ Len(b) \in Nat
    BY <1>2
  <1>5. safe \in 0 .. Len(b) /\ (safe # 0 => Len(b) - safe = L)
    BY <1>1, <1>3, <1>4
  <1>6. safe = 0 => t = <<>>
    <2>1. Len(p) = L => Len(b) > L
      <3>1. Len(b) = Len(p) + Len(c)
        BY <1>2
      <3> QED
        BY <1>1, <1>4, <3>1
    <2>2. Len(b) > L => safe # 0
      BY <1>1, <1>3, <1>4
    <2> QED
      BY <1>3, <2>1, <2>2
  <1> DEFINE t2 == t \o FirstN(b, safe)
             p2 == From(b, safe)
  <1>7. Split(t2, p2, s, Len(t) + Len(b)) /\ Len(t2) = Len(t) + safe
    <2>1. /\ t \in Seq(Text) /\ b \in Seq(Text) /\ safe \in 0 .. Len(b)
          /\ Starts(t, s)
          /\ At(b, s, Len(t))
      BY <1>2, <1>5
    <2> QED
      BY <2>1, Cut, Zenon
  <1> HIDE DEF t2, p2
  <1>8. t2 = <<>> \/ Len(p2) = L
    <2>1. t2 \in Seq(Text) /\ p2 \in Seq(Text) /\ Len(t2) + Len(p2) = Len(t) + Len(b)
      BY <1>7 DEF Split
    <2>2. Len(t2) \in Nat /\ Len(p2) \in Nat /\ (Len(t2) = 0 => t2 = <<>>) /\ safe \in Nat
      BY <1>5, <2>1
    <2>3. CASE safe = 0
      <3>1. Len(t) = 0
        BY <1>6, <2>3
      <3> QED
        BY <1>7, <2>2, <2>3, <3>1
    <2>4. CASE safe # 0
      <3>1. Len(b) - safe = L /\ Len(t2) = Len(t) + safe /\ Len(t2) + Len(p2) = Len(t) + Len(b)
        BY <1>5, <1>7, <2>1, <2>4
      <3>2. Len(t) \in Nat /\ Len(b) \in Nat /\ safe \in Nat /\ Len(p2) \in Nat /\ L \in Nat
        BY <1>1, <1>4, <2>2
      <3>3. Len(p2) = L
        BY <3>1, <3>2, SMTT(40)
      <3> QED
        BY <3>3
    <2> QED
      BY <2>3, <2>4
  <1>9. ASSUME NEW j \in Occurs(s, Marker) PROVE j + L > n + Len(c)
    <2>1. ~(j + L <= n + Len(c))
      BY <1>2, <1>3, Zenon
    <2>2. j \in Nat
      BY <1>1, MarkerOccurs
    <2>3. L \in Nat /\ Len(c) \in Nat /\ n \in Nat
      BY <1>1
    <2> QED
      BY <2>1, <2>2, <2>3
  <1>10. Split(t2, p2, s, n + Len(c))
    BY <1>2, <1>7
  <1>11. Unfound(t2, p2, s, n + Len(c))
    BY <1>1, <1>8, <1>9, <1>10, Zenon DEF Unfound
  <1> QED
    BY <1>11 DEF t2, p2

\* The turn that finds it: it is the first of the whole output.
FoundAt(b, i) == Occurs(b, Marker) # {} /\ i = Find(b, Marker)
LEMMA InBuffer ==
  ASSUME NEW s, NEW n, NEW c, NextChunk(c, s, n), NEW t, NEW p, Unfound(t, p, s, n), NEW b, Buffer(b, t, p, c, s, n),
         NEW i, FoundAt(b, i)
  PROVE  /\ Find(s, Marker) + Len(Marker) <= n + Len(c)
         /\ Split(t \o FirstN(b, i), From(b, i + Len(Marker)), Without(s, Marker), (n + Len(c)) - Len(Marker))
  <1> DEFINE L == Len(Marker)
             F == Find(s, Marker)
             W == Without(s, Marker)
             m == n + Len(c)
  <1>1. /\ L \in Nat \ {0} /\ L = Len(Marker) /\ Len(s) \in Nat /\ Len(c) \in Nat /\ m \in Nat /\ m <= Len(s) /\ Marker \in Seq(Text)
        /\ s \in Seq(Text)
    BY MarkerFacts DEF NextChunk
  <1>2. /\ b \in Seq(Text) /\ t \in Seq(Text) /\ Len(t) + Len(b) = m
        /\ Starts(t, s)
        /\ At(b, s, Len(t))
        /\ \A h \in Occurs(b, Marker) : Len(t) + h \in Occurs(s, Marker)
        /\ \A j \in Occurs(s, Marker) : j + L <= m => j >= Len(t) /\ j - Len(t) \in Occurs(b, Marker)
    BY Zenon DEF Buffer
  <1>3. i \in Occurs(b, Marker) /\ \A h \in Occurs(b, Marker) : i <= h
    <2>1. b \in Seq(Text) /\ Marker \in Seq(Text) /\ Occurs(b, Marker) # {} /\ i = Find(b, Marker)
      BY <1>1, <1>2 DEF FoundAt
    <2> QED
      BY <2>1, MarkerFind
  <1>4. Len(t) \in Nat /\ Len(b) \in Nat /\ i \in Nat /\ i + L <= Len(b)
    <2>1. b \in Seq(Text) /\ t \in Seq(Text) /\ i \in Occurs(b, Marker)
      BY <1>2, <1>3
    <2>2. i \in Nat /\ i + L <= Len(b)
      BY <2>1, MarkerOccurs, Zenon
    <2> QED
      BY <2>1, <2>2
  <1>5. Len(t) + i \in Occurs(s, Marker)
    BY <1>2, <1>3
  <1>6. F \in Occurs(s, Marker) /\ F \in Nat /\ \A j \in Occurs(s, Marker) : F <= j
    <2>1. s \in Seq(Text) /\ Occurs(s, Marker) # {}
      BY <1>1, <1>5
    <2> QED
      BY <2>1, MarkerFind, Zenon
  <1>7. \A k \in 1 .. (Len(s) - L) : W[k] = IF k <= F THEN s[k] ELSE s[k + L]
    <2>1. s \in Seq(Text) /\ Marker \in Seq(Text) /\ Occurs(s, Marker) # {}
      BY <1>1, <1>5
    <2> QED
      BY <2>1, WithoutFacts
  <1> HIDE DEF L, F, W, m
  <1>8. F = Len(t) + i
    <2>1. F <= Len(t) + i
      BY <1>5, <1>6
    <2>2. F + L <= m
      <3>1. Len(t) + Len(b) = m /\ F \in Nat /\ L \in Nat
        BY <1>1, <1>2, <1>6
      <3> QED
        BY <1>4, <2>1, <3>1
    <2>3. F >= Len(t) /\ i <= F - Len(t)
      BY <1>2, <1>3, <1>6, <2>2, Zenon
    <2>4. F \in Nat
      BY <1>6
    <2> QED
      BY <1>4, <2>1, <2>3, <2>4
  <1> DEFINE a == FirstN(b, i)
             z == From(b, i + L)
  <1>9. a \in Seq(Text) /\ Len(a) = i /\ \A k \in 1 .. i : a[k] = b[k]
    <2>1. b \in Seq(Text) /\ i \in Nat /\ i <= Len(b)
      <3>1. L \in Nat /\ b \in Seq(Text)
        BY <1>1, <1>2
      <3> QED
        BY <1>4, <3>1
    <2> QED
      BY <2>1, FirstNFacts
  <1>10. z \in Seq(Text) /\ Len(z) = Len(b) - (i + L) /\ \A k \in 1 .. Len(z) : z[k] = b[(i + L) + k]
    <2>1. b \in Seq(Text) /\ i + L \in Nat /\ i + L <= Len(b)
      BY <1>1, <1>2, <1>4
    <2> QED
      BY <2>1, FromFacts
  <1> HIDE DEF a, z
  <1>11. /\ t \o a \in Seq(Text) /\ Len(t \o a) = Len(t) + Len(a)
         /\ \A k \in 1 .. (Len(t) + Len(a)) : (t \o a)[k] = IF k <= Len(t) THEN t[k] ELSE a[k - Len(t)]
    <2>1. t \in Seq(Text) /\ a \in Seq(Text)
      BY <1>2, <1>9
    <2> QED
      BY <2>1, ConcatProperties, Zenon
  <1>12. Len(t \o a) = F /\ F + L + Len(z) = m /\ Len(z) \in Nat /\ F + L <= m
    <2>1. /\ Len(t \o a) = Len(t) + i /\ Len(z) = Len(b) - (i + L) /\ Len(t) + Len(b) = m
          /\ Len(z) \in Nat
      BY <1>2, <1>9, <1>10, <1>11
    <2>2. L \in Nat /\ F = Len(t) + i
      BY <1>1, <1>8
    <2> QED
      BY <1>4, <2>1, <2>2
  <1>13. ASSUME NEW k \in 1 .. Len(t \o a) PROVE (t \o a)[k] = W[k]
    <2>1. k \in 1 .. F /\ k \in 1 .. (Len(s) - L) /\ k <= F /\ k \in 1 .. (Len(t) + Len(a))
      <3>1. k \in 1 .. F /\ F + L <= m /\ F = Len(t) + Len(a)
        BY <1>8, <1>9, <1>12
      <3>2. F \in Nat /\ L \in Nat /\ m \in Nat /\ m <= Len(s) /\ Len(s) \in Nat
        BY <1>1, <1>6
      <3> QED
        BY <3>1, <3>2
    <2>2. W[k] = s[k]
      BY <1>7, <2>1
    <2>3. CASE k <= Len(t)
      BY <1>2, <1>4, <1>11, <2>1, <2>2, <2>3 DEF Starts
    <2>4. CASE ~(k <= Len(t))
      <3>1. k - Len(t) \in 1 .. i /\ k - Len(t) \in 1 .. Len(b) /\ Len(t) + (k - Len(t)) = k
        <4>1. k \in 1 .. (Len(t) + i)
          BY <1>8, <2>1
        <4>2. L \in Nat
          BY <1>1
        <4> QED
          BY <1>4, <2>4, <4>1, <4>2
      <3>2. (t \o a)[k] = a[k - Len(t)]
        BY <1>11, <2>1, <2>4
      <3> QED
        BY <1>2, <1>9, <2>2, <3>1, <3>2 DEF At
    <2> QED
      BY <2>3, <2>4
  <1>14. ASSUME NEW k \in 1 .. Len(z) PROVE z[k] = W[F + k]
    <2>1. F + k \in 1 .. (Len(s) - L) /\ ~(F + k <= F)
      <3>1. F \in Nat /\ L \in Nat /\ m \in Nat /\ m <= Len(s) /\ Len(s) \in Nat /\ F + L + Len(z) = m /\ Len(z) \in Nat
        BY <1>1, <1>6, <1>12
      <3> QED
        BY <3>1
    <2>2. (i + L) + k \in 1 .. Len(b) /\ Len(t) + ((i + L) + k) = (F + k) + L
      <3>1. Len(z) = Len(b) - (i + L) /\ L \in Nat /\ F = Len(t) + i
        BY <1>1, <1>8, <1>10
      <3> QED
        BY <1>4, <3>1
    <2>3. W[F + k] = s[(F + k) + L]
      BY <1>7, <2>1
    <2>4. z[k] = b[(i + L) + k]
      BY <1>10
    <2> QED
      BY <1>2, <2>2, <2>3, <2>4 DEF At
  <1>15. Len(t \o a) + Len(z) = m - L
    BY <1>1, <1>6, <1>12
  <1>16. Split(t \o a, z, W, m - L)
    BY <1>10, <1>11, <1>12, <1>13, <1>14, <1>15 DEF Split, Starts, At
  <1> QED
    BY <1>12, <1>16 DEF a, z, L, W, F, m

LEMMA CopyChunkStep == ASSUME IInv, CopyChunk PROVE IInv'
  <1> DEFINE c == FirstN(From(spool, pos), Chunk)
             b == pending \o c
  <1>1. /\ thread = "copy" /\ pos < Len(spool) /\ CopyTurn(b) /\ pos' = pos + Len(c)
        /\ UNCHANGED <<pc, call, remote, streamVars, answer>> /\ spool' = spool /\ thread' = thread /\ out' = out /\ pc' = pc
    BY DEF CopyChunk, streamVars
  <1>2. /\ CopyInv /\ spool = out /\ Occurs(out, Marker) # {} /\ out \in Seq(Text) /\ answer.kind # "result"
        /\ pc \in {"captured", "done", "crashed"}
    BY <1>1 DEF IInv, CaptureInv, AnswerInv, RemovalInv
  <1>3. pos \in Nat /\ Len(out) \in Nat /\ pos < Len(out)
    BY <1>1, <1>2 DEF CopyInv
  <1>4. /\ c \in Seq(Text) /\ Len(c) \in Nat /\ Len(c) # 0 /\ pos + Len(c) <= Len(out)
        /\ At(c, out, pos)
    BY <1>2, <1>3, ChunkFacts
  <1>5. pos' \in 0 .. Len(out) /\ NextChunk(c, out, pos)
    BY <1>1, <1>2, <1>3, <1>4 DEF NextChunk
  <1>6. SUFFICES CopyInv'
    <2>1. RemovalInv'
      BY <1>1, <1>2, <1>6 DEF RemovalInv
    <2> QED
      BY <1>1, <1>2, <2>1, ThreadStep
  <1> HIDE DEF c
  <1>7. CASE found
    <2>1. /\ Find(out, Marker) + Len(Marker) <= pos
          /\ Split(tmp, pending, Without(out, Marker), pos - Len(Marker))
      BY <1>2, <1>7 DEF CopyInv
    <2>2. Split(tmp \o b, <<>>, Without(out, Marker), (pos + Len(c)) - Len(Marker))
      BY <1>2, <1>5, <2>1, AfterMarker, Zenon
    <2>3. tmp' = tmp \o b /\ pending' = <<>> /\ found'
      BY <1>1, <1>7 DEF CopyTurn
    <2>4. Find(out, Marker) + Len(Marker) <= pos + Len(c)
      <3>1. Find(out, Marker) \in Nat /\ Len(Marker) \in Nat
        BY <1>2, MarkerFacts, MarkerFind
      <3> QED
        BY <1>3, <1>4, <2>1, <3>1
    <2> QED
      BY <1>1, <1>5, <2>2, <2>3, <2>4 DEF CopyInv
  <1>8. CASE ~found
    <2>1. Unfound(tmp, pending, out, pos)
      BY <1>2, <1>8 DEF CopyInv, Unfound
    <2>2. Buffer(b, tmp, pending, c, out, pos)
      BY <1>5, <2>1, BufferFacts, Zenon
    <2> HIDE DEF b
    <2>3. CASE Occurs(b, Marker) = {}
      <3> DEFINE safe == IF Len(b) > Len(Marker) THEN Len(b) - Len(Marker) ELSE 0
      <3>1. tmp' = tmp \o FirstN(b, safe) /\ pending' = From(b, safe) /\ ~found'
        BY <1>1, <1>8, <2>3 DEF CopyTurn, HeldBack
      <3>2. Unfound(tmp \o FirstN(b, safe), From(b, safe), out, pos + Len(c))
        BY <1>5, <2>1, <2>2, <2>3, NotInBuffer, Zenon
      <3> HIDE DEF safe
      <3> QED
        BY <1>1, <1>5, <3>1, <3>2 DEF CopyInv, Unfound
    <2>4. CASE Occurs(b, Marker) # {}
      <3> DEFINE i == Find(b, Marker)
      <3>1. tmp' = tmp \o FirstN(b, i) /\ pending' = From(b, i + Len(Marker)) /\ found'
        BY <1>1, <1>8, <2>4 DEF CopyTurn
      <3>2. /\ Find(out, Marker) + Len(Marker) <= pos + Len(c)
            /\ Split(tmp \o FirstN(b, i), From(b, i + Len(Marker)), Without(out, Marker), (pos + Len(c)) - Len(Marker))
        <4>1. FoundAt(b, i)
          BY <2>4 DEF FoundAt
        <4> QED
          BY <1>5, <2>1, <2>2, <4>1, InBuffer, Zenon
      <3> HIDE DEF i
      <3> QED
        BY <1>1, <1>5, <3>1, <3>2 DEF CopyInv
    <2> QED
      BY <2>3, <2>4
  <1> QED
    BY <1>7, <1>8

LEMMA CopyEndsStep == ASSUME IInv, CopyEnds PROVE IInv'
  <1> DEFINE W == Without(out, Marker)
             b == tmp \o pending
  <1>1. /\ thread = "copy" /\ pos = Len(spool) /\ tmp' = b /\ thread' = "copied"
        /\ UNCHANGED <<pc, call, remote, streamVars, answer>> /\ spool' = spool /\ found' = found /\ out' = out /\ pc' = pc
    BY DEF CopyEnds, LastWrite, streamVars
  <1>2. /\ CopyInv /\ spool = out /\ Occurs(out, Marker) # {} /\ out \in Seq(Text) /\ answer.kind # "result"
        /\ pc \in {"captured", "done", "crashed"}
    BY <1>1 DEF IInv, CaptureInv, AnswerInv, RemovalInv
  <1>3. found
    <2>1. Find(out, Marker) \in Occurs(out, Marker)
      BY <1>2, MarkerFind
    <2>2. Find(out, Marker) \in Nat /\ Find(out, Marker) + Len(Marker) <= Len(out)
      BY <1>2, <2>1, MarkerOccurs
    <2>3. ~found => Find(out, Marker) + Len(Marker) > pos
      BY <1>2, <2>1 DEF CopyInv
    <2>4. Len(Marker) \in Nat /\ Len(out) \in Nat /\ pos = Len(out)
      BY <1>1, <1>2, MarkerFacts
    <2> QED
      BY <2>2, <2>3, <2>4
  <1>4. Split(tmp, pending, W, Len(out) - Len(Marker))
    BY <1>1, <1>2, <1>3 DEF CopyInv
  <1>5. W \in Seq(Text) /\ Len(W) = Len(out) - Len(Marker)
    BY <1>2, MarkerFacts, WithoutFacts
  <1>6. b = W
    <2> HIDE DEF W
    <2>1. tmp \in Seq(Text) /\ pending \in Seq(Text) /\ Len(tmp) + Len(pending) = Len(W)
          /\ Starts(tmp, W) /\ At(pending, W, Len(tmp))
      BY <1>4, <1>5 DEF Split
    <2>2. /\ b \in Seq(Text) /\ Len(b) = Len(tmp) + Len(pending)
          /\ \A k \in 1 .. (Len(tmp) + Len(pending)) : b[k] = IF k <= Len(tmp) THEN tmp[k] ELSE pending[k - Len(tmp)]
      BY <2>1, ConcatProperties, Zenon
    <2> HIDE DEF b
    <2>3. Len(tmp) \in Nat /\ Len(pending) \in Nat /\ Len(b) = Len(W)
      BY <2>1, <2>2
    <2>4. ASSUME NEW k \in 1 .. Len(b) PROVE b[k] = W[k]
      <3>1. k \in 1 .. (Len(tmp) + Len(pending))
        BY <2>2
      <3>2. CASE k <= Len(tmp)
        BY <2>1, <2>2, <2>3, <3>1, <3>2 DEF Starts
      <3>3. CASE ~(k <= Len(tmp))
        <4>1. k - Len(tmp) \in 1 .. Len(pending) /\ Len(tmp) + (k - Len(tmp)) = k
          BY <2>3, <3>1, <3>3
        <4> QED
          BY <2>1, <2>2, <3>1, <3>3, <4>1 DEF At
      <3> QED
        BY <3>2, <3>3
    <2> QED
      BY <1>5, <2>2, <2>3, <2>4, SeqEqual
  <1> HIDE DEF b
  <1>7. RemovalInv'
    BY <1>1, <1>2, <1>3, <1>6 DEF RemovalInv
  <1> QED
    BY <1>1, <1>2, <1>7, ThreadStep

LEMMA ReplaceStep == ASSUME IInv, Replace PROVE IInv'
  <1>1. /\ thread = "copied" /\ spool' = (IF found THEN tmp ELSE spool) /\ tmp' = None /\ thread' = "ended"
        /\ UNCHANGED <<pc, call, remote, streamVars, answer>> /\ out' = out /\ pc' = pc
    BY DEF Replace, streamVars
  <1>2. /\ found /\ tmp = Without(out, Marker) /\ Occurs(out, Marker) # {} /\ answer.kind # "result"
        /\ pc \in {"captured", "done", "crashed"}
    BY <1>1 DEF IInv, CaptureInv, AnswerInv, RemovalInv
  <1>3. RemovalInv'
    BY <1>1, <1>2 DEF RemovalInv
  <1> QED
    BY <1>1, <1>2, <1>3, ThreadStep

LEMMA RemovalFailsStep == ASSUME IInv, RemovalFails PROVE IInv'
  <1>1. /\ thread \in {"copy", "copied"} /\ tmp' = None /\ thread' = "failed" /\ spool' = spool
        /\ call' = call /\ remote' = remote /\ out' = out /\ exit' = exit /\ captured' = captured /\ total' = total
    BY DEF RemovalFails, streamVars
  <1>2. /\ Occurs(out, Marker) # {} /\ spool = out /\ answer.kind # "result" /\ pc \in {"captured", "done", "crashed"}
    BY <1>1 DEF IInv, CaptureInv, AnswerInv, RemovalInv
  <1>3. CASE pc # "captured"
    <2>1. pc' = pc /\ answer' = answer
      BY <1>3 DEF RemovalFails
    <2>2. RemovalInv'
      BY <1>1, <1>2, <2>1 DEF RemovalInv
    <2> QED
      BY <1>1, <1>2, <2>1, <2>2, ThreadStep DEF streamVars
  <1>4. CASE pc = "captured"
    <2>1. pc' = "done" /\ answer' = Error("internal_error")
      BY <1>4 DEF RemovalFails, Answer
    <2>2. answer'.kind = "error" /\ answer'.code = "internal_error"
      BY <2>1 DEF Error
    <2>3. CaptureInv'
      BY <1>1, <2>1 DEF IInv, CaptureInv, PrefixOf
    <2>4. RemovalInv'
      BY <1>1, <1>2, <2>1 DEF RemovalInv
    <2>5. AnswerInv' /\ ToolInv'
      BY <1>1, <2>1, <2>2 DEF IInv, AnswerInv, ToolInv
    <2> QED
      BY <2>2, <2>3, <2>4, <2>5 DEF IInv, SudoOutputExact, RefusalSound, RangeExact, ListComplete, Refusals
  <1> QED
    BY <1>3, <1>4

LEMMA CrashStep == ASSUME IInv, Crash PROVE IInv'
  <1>1. /\ pc' = "crashed" /\ thread' = IF thread \in {"copy", "copied"} THEN "crashed" ELSE thread
        /\ call' = call /\ remote' = remote /\ out' = out /\ exit' = exit /\ captured' = captured /\ total' = total
        /\ spool' = spool /\ tmp' = tmp /\ pos' = pos /\ pending' = pending /\ answer' = answer
    BY DEF Crash, streamVars
  <1>2. found' = found
    BY DEF Crash
  <1>3. CaptureInv'
    BY <1>1 DEF IInv, CaptureInv, PrefixOf
  <1>4. RemovalInv'
    BY <1>1, <1>2 DEF IInv, RemovalInv
  <1>5. AnswerInv' /\ ToolInv'
    BY <1>1 DEF IInv, AnswerInv, ToolInv
  <1>6. SudoOutputExact' /\ RangeExact' /\ ListComplete'
    BY <1>1 DEF IInv, SudoOutputExact, RangeExact, ListComplete
  <1>7. RefusalSound'
    BY <1>1 DEF IInv, RefusalSound
  <1> QED
    BY <1>3, <1>4, <1>5, <1>6, <1>7 DEF IInv

LEMMA StutterStep == ASSUME IInv, UNCHANGED vars PROVE IInv'
  <1>1. /\ pc' = pc /\ thread' = thread
        /\ call' = call /\ remote' = remote /\ out' = out /\ exit' = exit /\ captured' = captured /\ total' = total
        /\ spool' = spool /\ tmp' = tmp /\ pos' = pos /\ pending' = pending /\ answer' = answer
    BY DEF vars
  <1>2. found' = found
    BY DEF vars
  <1>3. CaptureInv'
    BY <1>1 DEF IInv, CaptureInv, PrefixOf
  <1>4. RemovalInv'
    BY <1>1, <1>2 DEF IInv, RemovalInv, CopyInv
  <1>5. AnswerInv' /\ ToolInv'
    BY <1>1 DEF IInv, AnswerInv, ToolInv, SudoWrites, RangeWrites, ListWrites, RangeOf, Fresh
  <1>6. SudoOutputExact' /\ RangeExact' /\ ListComplete'
    BY <1>1 DEF IInv, SudoOutputExact, RangeExact, ListComplete
  <1>7. RefusalSound'
    BY <1>1 DEF IInv, RefusalSound
  <1> QED
    BY <1>3, <1>4, <1>5, <1>6, <1>7 DEF IInv

-----------------------------------------------------------------------------
LEMMA NextInv == IInv /\ [Next]_vars => IInv'
  <1> SUFFICES ASSUME IInv, [Next]_vars PROVE IInv'
    OBVIOUS
  <1>1. CASE \E noise \in Noise, started \in BOOLEAN, text \in Texts, spooled \in BOOLEAN :
                 Sudo(noise, started, text, spooled)
    BY <1>1, SudoStep
  <1>2. CASE \E tool \in {"sudo", "range", "list"}, offset \in {-1, 0}, max \in {0, 1, MaxOutputBytes + 1} :
                 Refuse(tool, offset, max)
    BY <1>2, RefuseStep
  <1>3. CASE \E offset \in 0 .. MaxOutputBytes, max \in 0 .. MaxOutputBytes : Inspect("range", offset, max)
    BY <1>3, InspectStep
  <1>4. CASE Inspect("list", 0, 0)
    BY <1>4, InspectStep
  <1>5. CASE Stat \/ RemoteChanges \/ RunInspection
    BY <1>5, StatStep, RemoteChangesStep, RunInspectionStep
  <1>6. CASE (\E n \in 1 .. Chunk : ReadChunk(n)) \/ EndOfStream \/ DeadlineCuts
    BY <1>6, ReadChunkStep, EndOfStreamStep, DeadlineCutsStep
  <1>7. CASE CaptureFails \/ Abandoned \/ Crash
    BY <1>7, FailureStep, CrashStep
  <1>8. CASE Refusal \/ SudoAnswer \/ RangeAnswer \/ ListAnswer
    BY <1>8, RefusalStep, SudoAnswerStep, RangeAnswerStep, ListAnswerStep
  <1>9. CASE StartRemoval \/ CopyChunk \/ CopyEnds \/ Replace \/ RemovalFails
    BY <1>9, StartRemovalStep, CopyChunkStep, CopyEndsStep, ReplaceStep, RemovalFailsStep
  <1>10. CASE UNCHANGED vars
    BY <1>10, StutterStep
  <1> QED
    BY <1>1, <1>2, <1>3, <1>4, <1>5, <1>6, <1>7, <1>8, <1>9, <1>10, Zenon DEF Next

LEMMA Invariance == Spec => []IInv
  BY InitInv, NextInv, PTL DEF Spec

\* execute and _remove_marker_from_file: what a privileged call reports is what
\* was written without the marker, wherever the reads of the pipe and of the
\* spool file were cut, for every marker, chunk size and output limit.
THEOREM SudoOutput == Spec => []SudoOutputExact
  <1>1. IInv => SudoOutputExact
    BY DEF IInv
  <1> QED
    BY <1>1, Invariance, PTL

\* _remove_marker_from_file replaces the spool file by a whole one or leaves it,
\* also when it fails or the server is killed.
THEOREM SpoolKept == Spec => []SpoolWhole
  <1>1. IInv => SpoolWhole
    BY DEF IInv, CaptureInv, RemovalInv, SpoolWhole
  <1> QED
    BY <1>1, Invariance, PTL

\* execute refuses a command that has started only if the deadline or the limit
\* cut the output before the end of the marker.
THEOREM RefusalsSound == Spec => []RefusalSound
  <1>1. IInv => RefusalSound
    BY DEF IInv
  <1> QED
    BY <1>1, Invariance, PTL

\* read_file_range returns the bytes of the window, and eof exactly at the end of
\* the file, of files that stat has met with content; others, empty ones included,
\* are refused, and no file with content is refused for its type.
THEOREM RangesExact == Spec => []RangeExact
  <1>1. IInv => RangeExact
    BY DEF IInv
  <1> QED
    BY <1>1, Invariance, PTL

\* list_directory never answers with a part of the entries.
THEOREM ListsComplete == Spec => []ListComplete
  <1>1. IInv => ListComplete
    BY DEF IInv
  <1> QED
    BY <1>1, Invariance, PTL

=============================================================================
