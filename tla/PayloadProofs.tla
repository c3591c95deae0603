---------------------------- MODULE PayloadProofs ---------------------------
(***************************************************************************)
(* What a payload delivers, and what a receiver accepts, for any number of *)
(* members, sizes, limits and changes of the inputs.                       *)
(*                                                                         *)
(* IInv: the data of a member are what was frozen, or its input has        *)
(* changed since (SenderInv); what the receiver holds or has replaced is   *)
(* what the stream carries (ReceiverInv).  LimitInv, inductive relative to *)
(* IInv: the members are accepted inputs, each once and in order, so that  *)
(* the sums of the receiver stay below those of the sender, member by      *)
(* member.                                                                 *)
(***************************************************************************)
EXTENDS Payload, WellFoundedInduction, FiniteSetTheorems, TLAPS

File   == [size : Int, time : Nat]
Member == [name : Names, size : Int, data : Nat]

Shape ==
    /\ src \in [Names -> File] /\ clock \in Nat
    /\ DOMAIN frozen \subseteq Names /\ \A n \in DOMAIN frozen : frozen[n] \in File
    /\ si \in Nat /\ stream \in Seq(Member)
    /\ spc \in {"idle", "next", "opened", "recheck", "ok", "failed"}
    /\ ended \in {"open", "eof", "cut", "torn"}
    /\ mode \in {"extract", "merge"}
    /\ cpc \in {"idle", "reading", "replacing", "ok", "refused", "limit", "error", "killed"}
    /\ ci \in 0 .. Len(stream) /\ fresh \in Seq(Member) /\ tree \in [Names -> Int]

\* Time goes on: what was frozen is not newer than what is there.
TimeInv ==
    /\ \A n \in Names : src[n].time <= clock
    /\ \A n \in DOMAIN frozen : frozen[n].time <= src[n].time

\* The data of a member are what was frozen, or its input has changed since.
Sent(m) ==
    /\ m.name \in DOMAIN frozen
    /\ m.data = frozen[m.name].time \/ frozen[m.name].time < src[m.name].time

SenderInv ==
    /\ ended = "open" <=> spc \in {"idle", "next", "opened"}
    /\ spc = "idle" => stream = <<>> /\ si = 1
    /\ spc = "opened" => si \in DOMAIN frozen
    /\ spc \in {"recheck", "ok"} => si > Members
    /\ spc = "ok" => \A n \in DOMAIN frozen : src[n] = frozen[n]
    /\ spc \in {"next", "opened", "recheck", "ok"} =>
           \A n \in DOMAIN frozen : n < si => \E i \in DOMAIN stream : stream[i].name = n
    /\ \A i \in DOMAIN stream : Sent(stream[i])

\* A name of the tree has been replaced by a member of the stream.
Replaced(n) == \E k \in DOMAIN stream : stream[k].name = n /\ tree[n] = stream[k].data
AllRead == ended # "open" /\ ci = Len(stream)
SameAs(s, k) == s \in Seq(Member) /\ Len(s) = k /\ \A j \in 1 .. k : s[j] = stream[j]

ReceiverInv ==
    /\ cpc = "idle" => ci = 0
    /\ cpc = "reading" => SameAs(scratch, ci)
    /\ cpc = "replacing" =>
           /\ mode = "merge" /\ AllRead /\ scratch \in Seq(Member)
           /\ \A i \in DOMAIN scratch : \E j \in DOMAIN stream : scratch[i] = stream[j]
           /\ \A j \in DOMAIN stream : Replaced(stream[j].name) \/ \E i \in DOMAIN scratch : scratch[i] = stream[j]
    /\ cpc = "ok" => AllRead
    /\ cpc = "ok" /\ mode = "merge" => \A j \in DOMAIN stream : Replaced(stream[j].name)
    /\ cpc = "ok" /\ mode = "extract" => SameAs(fresh, Len(stream))
    /\ fresh # <<>> => cpc = "ok"
    /\ \A n \in Names : tree[n] \in {Gone, Old, Unsafe} \/ Replaced(n)
    /\ (\E n \in Names : tree[n] \notin {Gone, Old, Unsafe}) =>
           AllRead /\ cpc \in {"replacing", "ok", "error", "killed"}

IInv == Shape /\ TimeInv /\ SenderInv /\ ReceiverInv

USE PayloadAssumption

LEMMA InitInv == Init => IInv
  <1> SUFFICES ASSUME Init PROVE IInv
    OBVIOUS
  <1>1. Shape
    <2>1. src \in [Names -> File]
      <3>1. Missing \in File
        BY DEF Missing, File
      <3>2. [size : Sizes, time : {0}] \subseteq File
        <4>1. Sizes \subseteq Int /\ {0} \subseteq Nat
          OBVIOUS
        <4> QED
          BY <4>1, Zenon DEF File
      <3> QED
        BY <3>1, <3>2 DEF Init
    <2>2. tree \in [Names -> Int]
      BY DEF Init, Gone, Old, Unsafe
    <2>3. DOMAIN frozen = {}
      BY DEF Init
    <2> QED
      BY <2>1, <2>2, <2>3 DEF Init, Shape
  <1>2. TimeInv
    BY DEF Init, TimeInv, Missing
  <1>3. SenderInv
    BY DEF Init, SenderInv
  <1>4. ReceiverInv
    BY DEF Init, ReceiverInv
  <1> QED
    BY <1>1, <1>2, <1>3, <1>4 DEF IInv

\* A step of the sender that leaves the stream as it is, or finds it open.
LEMMA SenderStep ==
  ASSUME IInv, UNCHANGED receiverVars, stream' \in Seq(Member), Len(stream') >= Len(stream),
         \A j \in DOMAIN stream : stream'[j] = stream[j],
         ended # "open" => stream' = stream /\ ended' # "open"
  PROVE  ReceiverInv' /\ ci' \in 0 .. Len(stream')
  <1>1. /\ mode' = mode /\ cpc' = cpc /\ ci' = ci /\ scratch' = scratch /\ fresh' = fresh /\ tree' = tree
    BY DEF receiverVars
  <1>2. CASE ended # "open"
    BY <1>1, <1>2 DEF IInv, Shape, ReceiverInv, AllRead, SameAs, Replaced
  <1>3. CASE ended = "open"
    <2>1. \A j \in 1 .. ci : stream'[j] = stream[j]
      BY DEF IInv, Shape
    <2>2. \A n \in Names : tree[n] \in {Gone, Old, Unsafe}
      BY <1>3 DEF IInv, ReceiverInv, AllRead
    <2>3. ci \in 0 .. Len(stream') /\ Len(stream) \in Nat /\ Len(stream') \in Nat
      BY DEF IInv, Shape
    <2> QED
      BY <1>1, <1>3, <2>1, <2>2, <2>3 DEF IInv, ReceiverInv, AllRead, SameAs
  <1> QED
    BY <1>2, <1>3

-----------------------------------------------------------------------------
(* The sender.                                                             *)

LEMMA SourceChangesStep == ASSUME NEW n \in Names, IInv, SourceChanges(n) PROVE IInv'
  <1>1. PICK size \in Sizes \cup {-1} : src' = [src EXCEPT ![n] = [size |-> size, time |-> clock + 1]]
    BY DEF SourceChanges
  <1>2. /\ clock' = clock + 1 /\ spc \notin {"idle", "ok", "failed"} /\ UNCHANGED receiverVars
        /\ spc' = spc /\ frozen' = frozen /\ si' = si /\ stream' = stream /\ ended' = ended
    BY DEF SourceChanges, senderVars
  <1>3. ReceiverInv' /\ ci' \in 0 .. Len(stream')
    BY <1>2, SenderStep DEF IInv, Shape
  <1>4. [size |-> size, time |-> clock + 1] \in File
    <2>1. size \in Int /\ clock + 1 \in Nat
      BY DEF IInv, Shape
    <2> QED
      BY <2>1, Zenon DEF File
  <1>5. src' \in [Names -> File]
    BY <1>1, <1>4 DEF IInv, Shape
  <1>6. Shape'
    BY <1>2, <1>3, <1>5 DEF IInv, Shape, receiverVars
  <1>7. \A k \in Names : src'[k].time >= src[k].time /\ src'[k].time <= clock'
    BY <1>1, <1>2 DEF IInv, Shape, TimeInv, File
  <1>8. TimeInv'
    BY <1>2, <1>5, <1>7 DEF IInv, Shape, TimeInv, File
  <1>9. \A i \in DOMAIN stream : Sent(stream[i])'
    <2>1. ASSUME NEW i \in DOMAIN stream PROVE Sent(stream[i])'
      <3>1. Sent(stream[i]) /\ stream[i].name \in Names
        BY DEF IInv, Shape, SenderInv, Sent
      <3>2. src[stream[i].name].time \in Nat /\ src'[stream[i].name].time \in Nat /\ frozen[stream[i].name].time \in Nat
        BY <3>1, <1>5 DEF IInv, Shape, File, Sent
      <3> QED
        BY <3>1, <3>2, <1>2, <1>7 DEF Sent
    <2> QED
      BY <2>1
  <1>10. SenderInv'
    BY <1>2, <1>9 DEF IInv, SenderInv
  <1> QED
    BY <1>3, <1>6, <1>8, <1>10 DEF IInv

LEMMA FreezeStep == ASSUME NEW names \in SUBSET Names, IInv, Freeze(names) PROVE IInv'
  <1>1. /\ spc = "idle" /\ src' = src /\ clock' = clock /\ si' = si /\ stream' = stream /\ UNCHANGED receiverVars
        /\ \/ spc' = "next" /\ frozen' = [n \in names |-> src[n]] /\ ended' = ended
           \/ spc' = "failed" /\ frozen' = <<>> /\ ended' = "cut"
    BY DEF Freeze, Inputs
  <1>2. stream = <<>> /\ si = 1 /\ ended = "open"
    BY <1>1 DEF IInv, SenderInv
  <1>3. ReceiverInv' /\ ci' \in 0 .. Len(stream')
    BY <1>1, <1>2, SenderStep DEF IInv, Shape
  <1>4. DOMAIN frozen' \subseteq Names /\ \A n \in DOMAIN frozen' : frozen'[n] = src[n]
    BY <1>1
  <1>5. Shape'
    BY <1>1, <1>3, <1>4 DEF IInv, Shape, receiverVars
  <1>6. TimeInv'
    BY <1>1, <1>4 DEF IInv, Shape, TimeInv, File
  <1>7. SenderInv'
    <2>1. \A n \in DOMAIN frozen' : ~(n < si')
      BY <1>1, <1>2, <1>4 DEF Names
    <2> QED
      BY <1>1, <1>2, <2>1 DEF SenderInv
  <1> QED
    BY <1>3, <1>5, <1>6, <1>7 DEF IInv

\* The steps of the sender that add no member.
LEMMA QuietStep ==
  ASSUME IInv, OpenMember \/ CloseArchive \/ Recheck \/ SenderDies
  PROVE  IInv'
  <1>1. src' = src /\ clock' = clock /\ frozen' = frozen /\ stream' = stream /\ UNCHANGED receiverVars
    BY DEF OpenMember, CloseArchive, Recheck, SenderDies
  <1>2. /\ spc' \in {"next", "opened", "recheck", "ok", "failed"} /\ ended' \in {"open", "eof", "cut", "torn"}
        /\ si' \in Nat /\ (ended # "open" => ended' # "open")
        /\ ended' = "open" <=> spc' \in {"idle", "next", "opened"}
    BY DEF OpenMember, CloseArchive, Recheck, SenderDies, IInv, Shape, SenderInv
  <1>3. ReceiverInv' /\ ci' \in 0 .. Len(stream')
    BY <1>1, <1>2, SenderStep DEF IInv, Shape
  <1>4. Shape'
    BY <1>1, <1>2, <1>3 DEF IInv, Shape, receiverVars
  <1>5. TimeInv'
    BY <1>1 DEF IInv, TimeInv
  <1>6. \A i \in DOMAIN stream' : Sent(stream[i])'
    <2>1. ASSUME NEW i \in DOMAIN stream PROVE Sent(stream[i])'
      <3>1. Sent(stream[i])
        BY DEF IInv, SenderInv
      <3> QED
        BY <3>1, <1>1 DEF Sent
    <2> QED
      BY <2>1, <1>1
  <1>7. SenderInv'
    <2>1. spc' = "opened" => si' \in DOMAIN frozen'
      BY <1>1 DEF OpenMember, CloseArchive, Recheck, SenderDies, IInv, SenderInv
    <2>2. spc' \in {"recheck", "ok"} => si' > Members
      BY <1>1 DEF OpenMember, CloseArchive, Recheck, SenderDies, IInv, Shape, SenderInv
    <2>3. spc' = "ok" => \A n \in DOMAIN frozen' : src'[n] = frozen'[n]
      BY <1>1 DEF OpenMember, CloseArchive, Recheck, SenderDies, IInv, SenderInv, Unchanged
    <2>4. spc' \in {"next", "opened", "recheck", "ok"} =>
              \A n \in DOMAIN frozen' : n < si' => \E i \in DOMAIN stream' : stream'[i].name = n
      BY <1>1 DEF OpenMember, CloseArchive, Recheck, SenderDies, IInv, Shape, SenderInv, Names
    <2> QED
      BY <1>2, <1>6, <2>1, <2>2, <2>3, <2>4 DEF SenderInv
  <1> QED
    BY <1>3, <1>4, <1>5, <1>7 DEF IInv

LEMMA AddMemberStep == ASSUME IInv, AddMember PROVE IInv'
  <1>1. src' = src /\ clock' = clock /\ frozen' = frozen /\ UNCHANGED receiverVars /\ spc = "opened"
    BY DEF AddMember
  <1>2. si \in DOMAIN frozen /\ si \in Names /\ ended = "open"
    BY <1>1 DEF IInv, Shape, SenderInv
  <1>3. CASE spc' = "failed" /\ ended' = "torn" /\ UNCHANGED <<si, stream>>
    <2>1. ReceiverInv' /\ ci' \in 0 .. Len(stream')
      BY <1>1, <1>2, <1>3, SenderStep DEF IInv, Shape
    <2>2. Shape' /\ TimeInv'
      BY <1>1, <1>3, <2>1 DEF IInv, Shape, TimeInv, receiverVars
    <2>3. ASSUME NEW i \in DOMAIN stream PROVE Sent(stream[i])'
      <3>1. Sent(stream[i])
        BY DEF IInv, SenderInv
      <3> QED
        BY <3>1, <1>1, <1>3 DEF Sent
    <2>4. SenderInv'
      BY <1>1, <1>3, <2>3 DEF SenderInv
    <2> QED
      BY <2>1, <2>2, <2>4 DEF IInv
  <1>4. ASSUME NEW time \in {frozen[si].time, src[si].time},
               stream' = Append(stream, [name |-> si, size |-> frozen[si].size, data |-> time]),
               spc' = "next", si' = si + 1, UNCHANGED ended
        PROVE  IInv'
    <2> DEFINE m == [name |-> si, size |-> frozen[si].size, data |-> time]
    <2>1. m \in Member
      BY <1>2 DEF IInv, Shape, File, Member
    <2>2. m.name = si /\ m.data = time
      OBVIOUS
    <2> HIDE DEF m
    <2>3. /\ stream' \in Seq(Member) /\ Len(stream') = Len(stream) + 1 /\ Len(stream) \in Nat
          /\ stream'[Len(stream) + 1] = m /\ \A j \in DOMAIN stream : stream'[j] = stream[j]
          /\ DOMAIN stream = 1 .. Len(stream) /\ DOMAIN stream' = 1 .. (Len(stream) + 1)
      BY <1>4, <2>1 DEF IInv, Shape, m
    <2>4. ReceiverInv' /\ ci' \in 0 .. Len(stream')
      BY <1>1, <1>2, <2>3, SenderStep
    <2>5. Shape' /\ TimeInv'
      BY <1>1, <1>4, <2>3, <2>4 DEF IInv, Shape, TimeInv, receiverVars
    <2>6. Sent(m)
      <3>1. frozen[si].time \in Nat /\ src[si].time \in Nat /\ frozen[si].time <= src[si].time
        BY <1>2 DEF IInv, Shape, TimeInv, File
      <3> QED
        BY <1>2, <2>2, <1>4, <3>1 DEF Sent
    <2>7. \A i \in DOMAIN stream' : Sent(stream[i])'
      <3>1. ASSUME NEW i \in DOMAIN stream' PROVE Sent(stream'[i])
        <4>1. CASE i = Len(stream) + 1
          BY <4>1, <2>3, <2>6
        <4>2. CASE i # Len(stream) + 1
          <5>1. i \in DOMAIN stream /\ stream'[i] = stream[i]
            BY <4>2, <2>3
          <5> QED
            BY <5>1 DEF IInv, SenderInv
        <4> QED
          BY <4>1, <4>2
      <3> QED
        BY <3>1, <1>1 DEF Sent
    <2>8. \A n \in DOMAIN frozen' : n < si' => \E i \in DOMAIN stream' : stream'[i].name = n
      <3>1. SUFFICES ASSUME NEW n \in DOMAIN frozen, n < si + 1
                     PROVE  \E i \in DOMAIN stream' : stream'[i].name = n
        BY <1>1, <1>4
      <3>2. n \in Int /\ si \in Int
        BY <1>2 DEF IInv, Shape, Names
      <3>3. CASE n = si
        <4>1. Len(stream) + 1 \in DOMAIN stream' /\ stream'[Len(stream) + 1].name = n
          BY <3>3, <2>2, <2>3
        <4> QED
          BY <4>1
      <3>4. CASE n < si
        <4>1. PICK i \in DOMAIN stream : stream[i].name = n
          BY <3>4, <1>1 DEF IInv, SenderInv
        <4>2. i \in DOMAIN stream' /\ stream'[i] = stream[i]
          BY <2>3
        <4> QED
          BY <4>1, <4>2
      <3> QED
        BY <3>1, <3>2, <3>3, <3>4
    <2>9. SenderInv'
      BY <1>1, <1>2, <1>4, <2>7, <2>8 DEF SenderInv
    <2> QED
      BY <2>4, <2>5, <2>9 DEF IInv
  <1> QED
    BY <1>3, <1>4 DEF AddMember

-----------------------------------------------------------------------------
(* The receiver.                                                           *)

LEMMA SenderKept ==
  ASSUME IInv, UNCHANGED <<src, clock, senderVars>>
  PROVE  /\ src' = src /\ clock' = clock /\ spc' = spc /\ frozen' = frozen
         /\ si' = si /\ stream' = stream /\ ended' = ended
         /\ TimeInv' /\ SenderInv'
  <1>1. /\ src' = src /\ clock' = clock /\ spc' = spc /\ frozen' = frozen
        /\ si' = si /\ stream' = stream /\ ended' = ended
    BY DEF senderVars
  <1>2. TimeInv'
    BY <1>1 DEF IInv, TimeInv
  <1>3. SenderInv'
    BY <1>1 DEF IInv, SenderInv, Sent
  <1> QED
    BY <1>1, <1>2, <1>3

\* The members of the stream.
LEMMA Carried == ASSUME IInv, NEW j \in DOMAIN stream PROVE stream[j].name \in Names /\ stream[j].data \in Int
  <1>1. stream[j] \in Member
    BY DEF IInv, Shape
  <1> QED
    BY <1>1 DEF Member

\* Until it replaces or has published, the receiver has delivered nothing.
LEMMA Untouched ==
  ASSUME IInv, cpc \in {"idle", "reading"}
  PROVE  fresh = <<>> /\ \A n \in Names : tree[n] \in {Gone, Old, Unsafe}
  BY DEF IInv, ReceiverInv

\* The receiver ends without success.
LEMMA StoppedStep ==
  ASSUME IInv, UNCHANGED <<src, clock, senderVars, mode, fresh, tree>>, ci' \in 0 .. Len(stream),
         \/ cpc \in {"idle", "reading"} /\ cpc' \in {"refused", "limit", "killed"}
         \/ cpc = "replacing" /\ ci' = ci /\ cpc' \in {"error", "killed"}
  PROVE  IInv'
  <1>1. /\ src' = src /\ clock' = clock /\ spc' = spc /\ frozen' = frozen
        /\ si' = si /\ stream' = stream /\ ended' = ended
        /\ TimeInv' /\ SenderInv'
    BY SenderKept
  <1>2. Shape'
    BY <1>1 DEF IInv, Shape
  <1>3. fresh = <<>>
    BY DEF IInv, ReceiverInv
  <1>4. ReceiverInv'
    <2>1. CASE cpc \in {"idle", "reading"}
      BY <1>1, <1>3, <2>1, Untouched DEF ReceiverInv
    <2>2. CASE cpc = "replacing"
      BY <1>1, <1>3, <2>2 DEF IInv, ReceiverInv, Replaced, AllRead
    <2> QED
      BY <2>1, <2>2
  <1> QED
    BY <1>1, <1>2, <1>4 DEF IInv

LEMMA ReceiveStep == ASSUME IInv, Receive PROVE IInv'
  <1>1. UNCHANGED <<src, clock, senderVars, mode, fresh, tree>> /\ ci' = ci /\ cpc = "idle"
    BY DEF Receive
  <1>2. ci = 0 /\ ci' \in 0 .. Len(stream)
    BY <1>1 DEF IInv, Shape, ReceiverInv
  <1>3. CASE scratch = "stale"
    BY <1>1, <1>2, <1>3, StoppedStep DEF Receive, Leave
  <1>4. CASE scratch # "stale"
    <2>1. cpc' = "reading" /\ scratch' = <<>>
      BY <1>4 DEF Receive
    <2>2. /\ src' = src /\ clock' = clock /\ spc' = spc /\ frozen' = frozen
          /\ si' = si /\ stream' = stream /\ ended' = ended
          /\ TimeInv' /\ SenderInv'
      BY <1>1, SenderKept
    <2>3. Shape'
      BY <1>1, <2>1, <2>2 DEF IInv, Shape
    <2>4. ReceiverInv'
      BY <1>1, <1>2, <2>1, <2>2, Untouched DEF ReceiverInv, SameAs
    <2> QED
      BY <2>2, <2>3, <2>4 DEF IInv
  <1> QED
    BY <1>3, <1>4

LEMMA ReadMemberStep == ASSUME IInv, ReadMember PROVE IInv'
  <1>1. /\ UNCHANGED <<src, clock, senderVars, mode, fresh, tree>> /\ ci' = ci + 1
        /\ cpc = "reading" /\ ci < Len(stream)
    BY DEF ReadMember
  <1>2. ci' \in 0 .. Len(stream) /\ ci \in Nat /\ Len(stream) \in Nat
    BY <1>1 DEF IInv, Shape
  <1>3. CASE cpc' = "limit"
    BY <1>1, <1>2, <1>3, StoppedStep
  <1>4. CASE cpc' = cpc /\ scratch' = Append(scratch, stream[ci + 1])
    <2>1. /\ src' = src /\ clock' = clock /\ spc' = spc /\ frozen' = frozen
          /\ si' = si /\ stream' = stream /\ ended' = ended
          /\ TimeInv' /\ SenderInv'
      BY <1>1, SenderKept
    <2>2. Shape'
      BY <1>1, <1>2, <1>4, <2>1 DEF IInv, Shape
    <2>3. SameAs(scratch, ci) /\ stream[ci + 1] \in Member
      BY <1>1, <1>2 DEF IInv, Shape, ReceiverInv
    <2>4. SameAs(scratch, ci)'
      BY <1>1, <1>2, <1>4, <2>1, <2>3 DEF SameAs
    <2>5. ReceiverInv'
      BY <1>1, <1>4, <2>1, <2>4, Untouched DEF ReceiverInv
    <2> QED
      BY <2>1, <2>2, <2>5 DEF IInv
  <1> QED
    BY <1>3, <1>4 DEF ReadMember, Leave

LEMMA PublishStep == ASSUME IInv, Publish PROVE IInv'
  <1>1. /\ UNCHANGED <<src, clock, senderVars, mode, tree>> /\ ci' = ci
        /\ cpc = "reading" /\ ci = Len(stream) /\ ended # "open" /\ mode = "extract"
    BY DEF Publish, StreamAccepted, Complete
  <1>2. ci' \in 0 .. Len(stream)
    BY <1>1 DEF IInv, Shape
  <1>3. CASE cpc' = "refused" /\ UNCHANGED fresh
    BY <1>1, <1>2, <1>3, StoppedStep
  <1>4. CASE cpc' = "ok" /\ fresh' = scratch
    <2>1. /\ src' = src /\ clock' = clock /\ spc' = spc /\ frozen' = frozen
          /\ si' = si /\ stream' = stream /\ ended' = ended
          /\ TimeInv' /\ SenderInv'
      BY <1>1, SenderKept
    <2>2. SameAs(scratch, ci)
      BY <1>1 DEF IInv, ReceiverInv
    <2>3. SameAs(fresh, Len(stream))'
      BY <1>1, <1>4, <2>1, <2>2 DEF SameAs
    <2>4. Shape'
      BY <1>1, <1>4, <2>1, <2>2 DEF IInv, Shape, SameAs
    <2>5. ReceiverInv'
      BY <1>1, <1>4, <2>1, <2>3, Untouched DEF ReceiverInv, AllRead
    <2> QED
      BY <2>1, <2>4, <2>5 DEF IInv
  <1> QED
    BY <1>3, <1>4 DEF Publish, Leave

LEMMA CheckTargetsStep == ASSUME IInv, CheckTargets PROVE IInv'
  <1>1. /\ UNCHANGED <<src, clock, senderVars, mode, fresh, tree>> /\ ci' = ci
        /\ cpc = "reading" /\ ci = Len(stream) /\ ended # "open" /\ mode = "merge"
    BY DEF CheckTargets, StreamAccepted, Complete
  <1>2. ci' \in 0 .. Len(stream)
    BY <1>1 DEF IInv, Shape
  <1>3. CASE cpc' = "refused"
    BY <1>1, <1>2, <1>3, StoppedStep
  <1>4. CASE cpc' = "replacing" /\ UNCHANGED scratch
    <2>1. /\ src' = src /\ clock' = clock /\ spc' = spc /\ frozen' = frozen
          /\ si' = si /\ stream' = stream /\ ended' = ended
          /\ TimeInv' /\ SenderInv'
      BY <1>1, SenderKept
    <2>2. scratch \in Seq(Member) /\ Len(scratch) = Len(stream) /\ \A j \in 1 .. Len(stream) : scratch[j] = stream[j]
      BY <1>1 DEF IInv, ReceiverInv, SameAs
    <2>3. DOMAIN scratch = 1 .. Len(stream) /\ DOMAIN stream = 1 .. Len(stream)
      BY <2>2 DEF IInv, Shape
    <2>4. Shape'
      BY <1>1, <1>4, <2>1 DEF IInv, Shape
    <2>5. ReceiverInv'
      BY <1>1, <1>4, <2>1, <2>2, <2>3, Untouched DEF ReceiverInv, AllRead
    <2> QED
      BY <2>1, <2>4, <2>5 DEF IInv
  <1> QED
    BY <1>3, <1>4 DEF CheckTargets, Leave

\* os.replace of one member: what is left to replace shrinks by it, and what
\* other names hold stays.
LEMMA ReplaceOneStep == ASSUME IInv, ReplaceOne PROVE IInv'
  <1>1. UNCHANGED <<src, clock, senderVars, mode, fresh>> /\ ci' = ci /\ cpc = "replacing" /\ scratch # <<>>
    BY DEF ReplaceOne
  <1>2. ci' \in 0 .. Len(stream)
    BY <1>1 DEF IInv, Shape
  <1>3. CASE cpc' = "error" /\ UNCHANGED tree
    BY <1>1, <1>2, <1>3, StoppedStep
  <1>4. CASE /\ tree' = [tree EXCEPT ![scratch[1].name] = scratch[1].data]
             /\ scratch' = Tail(scratch) /\ UNCHANGED cpc
    <2>1. /\ src' = src /\ clock' = clock /\ spc' = spc /\ frozen' = frozen
          /\ si' = si /\ stream' = stream /\ ended' = ended
          /\ TimeInv' /\ SenderInv'
      BY <1>1, SenderKept
    <2>2. /\ scratch \in Seq(Member) /\ Len(scratch) \in Nat /\ Len(scratch) > 0
          /\ DOMAIN scratch = 1 .. Len(scratch) /\ AllRead /\ mode = "merge" /\ fresh = <<>>
          /\ \A i \in DOMAIN scratch : \E j \in DOMAIN stream : scratch[i] = stream[j]
          /\ \A j \in DOMAIN stream : Replaced(stream[j].name) \/ \E i \in DOMAIN scratch : scratch[i] = stream[j]
      BY <1>1 DEF IInv, ReceiverInv
    <2>3. PICK k \in DOMAIN stream : scratch[1] = stream[k]
      BY <2>2
    <2>4. /\ stream[k].name \in Names /\ stream[k].data \in Int
          /\ tree' = [tree EXCEPT ![stream[k].name] = stream[k].data] /\ tree \in [Names -> Int]
      BY <1>4, <2>3, Carried DEF IInv, Shape
    <2>5. Replaced(stream[k].name)'
      BY <2>1, <2>4 DEF Replaced
    <2>6. ASSUME NEW n \in Names, Replaced(n) PROVE Replaced(n)'
      <3>1. CASE n = stream[k].name
        BY <3>1, <2>5, <2>1
      <3>2. CASE n # stream[k].name
        <4>1. tree'[n] = tree[n]
          BY <3>2, <2>4
        <4> QED
          BY <4>1, <2>1, <2>6 DEF Replaced
      <3> QED
        BY <3>1, <3>2
    <2>7. /\ scratch' \in Seq(Member) /\ DOMAIN scratch' = 1 .. (Len(scratch) - 1)
          /\ \A i \in 1 .. (Len(scratch) - 1) : scratch'[i] = scratch[i + 1]
      BY <1>4, <2>2
    <2>8. Shape'
      BY <1>1, <1>2, <1>4, <2>1, <2>4 DEF IInv, Shape
    <2>9. \A i \in DOMAIN scratch' : \E j \in DOMAIN stream' : scratch'[i] = stream'[j]
      <3>1. SUFFICES ASSUME NEW i \in 1 .. (Len(scratch) - 1) PROVE \E j \in DOMAIN stream : scratch[i + 1] = stream[j]
        BY <2>1, <2>7
      <3>2. i + 1 \in DOMAIN scratch
        BY <2>2
      <3> QED
        BY <3>2, <2>2
    <2>10. \A j \in DOMAIN stream' : Replaced(stream[j].name)' \/ \E i \in DOMAIN scratch' : scratch'[i] = stream'[j]
      <3>1. SUFFICES ASSUME NEW j \in DOMAIN stream
                     PROVE  Replaced(stream[j].name)' \/ \E i \in DOMAIN scratch' : scratch'[i] = stream[j]
        BY <2>1
      <3>2. stream[j].name \in Names
        BY Carried
      <3>3. CASE Replaced(stream[j].name)
        BY <3>2, <3>3, <2>1, <2>6 DEF Replaced
      <3>4. ASSUME NEW i \in DOMAIN scratch, scratch[i] = stream[j]
            PROVE  Replaced(stream[j].name)' \/ \E h \in DOMAIN scratch' : scratch'[h] = stream[j]
        <4>1. CASE i = 1
          BY <4>1, <3>4, <2>1, <2>3, <2>5
        <4>2. CASE i # 1
          <5>1. i - 1 \in DOMAIN scratch' /\ scratch'[i - 1] = scratch[i]
            BY <4>2, <2>2, <2>7
          <5> QED
            BY <5>1, <3>4
        <4> QED
          BY <4>1, <4>2
      <3> QED
        BY <3>3, <3>4, <2>2
    <2>11. \A n \in Names : tree'[n] \in {Gone, Old, Unsafe} \/ Replaced(n)'
      <3>1. SUFFICES ASSUME NEW n \in Names PROVE tree'[n] \in {Gone, Old, Unsafe} \/ Replaced(n)'
        OBVIOUS
      <3>2. CASE n = stream[k].name
        BY <3>2, <2>5, <2>1
      <3>3. CASE n # stream[k].name
        BY <3>3, <2>4, <2>6 DEF IInv, ReceiverInv
      <3> QED
        BY <3>2, <3>3
    <2>12. ReceiverInv'
      BY <1>1, <1>4, <2>1, <2>2, <2>7, <2>9, <2>10, <2>11 DEF ReceiverInv, AllRead
    <2> QED
      BY <2>1, <2>8, <2>12 DEF IInv
  <1> QED
    BY <1>3, <1>4 DEF ReplaceOne, Leave

LEMMA MergedStep == ASSUME IInv, Merged PROVE IInv'
  <1>1. UNCHANGED <<src, clock, senderVars, mode, fresh, tree>> /\ ci' = ci
    BY DEF Merged
  <1>2. cpc = "replacing" /\ scratch = <<>> /\ cpc' = "ok"
    BY DEF Merged, Leave
  <1>3. /\ src' = src /\ clock' = clock /\ spc' = spc /\ frozen' = frozen
        /\ si' = si /\ stream' = stream /\ ended' = ended
        /\ TimeInv' /\ SenderInv'
    BY <1>1, SenderKept
  <1>4. /\ mode = "merge" /\ AllRead /\ fresh = <<>>
        /\ \A j \in DOMAIN stream : Replaced(stream[j].name)
    BY <1>2 DEF IInv, ReceiverInv
  <1>5. Shape'
    BY <1>1, <1>2, <1>3 DEF IInv, Shape
  <1>6. ReceiverInv'
    BY <1>1, <1>2, <1>3, <1>4 DEF IInv, ReceiverInv, AllRead, Replaced
  <1> QED
    BY <1>3, <1>5, <1>6 DEF IInv

-----------------------------------------------------------------------------
LEMMA NextInv == ASSUME IInv, [Next]_vars PROVE IInv'
  <1>1. CASE UNCHANGED vars
    BY <1>1 DEF vars, IInv, Shape, TimeInv, SenderInv, Sent, ReceiverInv, Replaced, AllRead, SameAs
  <1>2. ASSUME NEW n \in Names, SourceChanges(n) PROVE IInv'
    BY <1>2, SourceChangesStep
  <1>3. ASSUME NEW names \in SUBSET Names, Freeze(names) PROVE IInv'
    BY <1>3, FreezeStep
  <1>4. CASE StreamRefused
    <2>1. UNCHANGED <<src, clock, senderVars, mode, fresh, tree>> /\ ci' = ci /\ cpc = "reading"
      BY <1>4 DEF StreamRefused
    <2>2. ci' \in 0 .. Len(stream) /\ cpc' \in {"refused", "limit"}
      BY <1>4, <2>1 DEF StreamRefused, Leave, IInv, Shape
    <2> QED
      BY <2>1, <2>2, StoppedStep
  <1>5. CASE ReceiverDies
    <2>1. /\ UNCHANGED <<src, clock, senderVars, mode, fresh, tree>> /\ ci' = ci
          /\ cpc \in {"reading", "replacing"} /\ cpc' = "killed"
      BY <1>5 DEF ReceiverDies, Leave
    <2>2. ci' \in 0 .. Len(stream)
      BY <2>1 DEF IInv, Shape
    <2> QED
      BY <2>1, <2>2, StoppedStep
  <1> QED
    BY <1>1, <1>2, <1>3, <1>4, <1>5, QuietStep, AddMemberStep, ReceiveStep, ReadMemberStep, PublishStep,
       CheckTargetsStep, ReplaceOneStep, MergedStep DEF Next

LEMMA Invariance == Spec => []IInv
  BY InitInv, NextInv, PTL DEF Spec

\* write_archive, extract_archive, merge_archive: when both ends report success
\* every input is delivered as it was frozen, for any number of members and any
\* number of changes: a member that was read after a change of its input is one
\* whose sender does not end with "ok".
THEOREM Delivery == Spec => []DeliveredIsFrozen
  <1>1. ASSUME IInv PROVE DeliveredIsFrozen
    <2>1. SUFFICES ASSUME spc = "ok", cpc = "ok", NEW n \in Names
                   PROVE  IF n \in DOMAIN frozen THEN Delivered(n) = frozen[n].time
                          ELSE Delivered(n) \in {Gone, Old, Unsafe}
      BY DEF DeliveredIsFrozen
    <2>2. ASSUME NEW j \in DOMAIN stream
          PROVE  stream[j].name \in DOMAIN frozen /\ stream[j].data = frozen[stream[j].name].time
      <3>1. Sent(stream[j]) /\ stream[j].name \in Names
        BY <1>1, Carried DEF IInv, SenderInv
      <3>2. src[stream[j].name] = frozen[stream[j].name] /\ src[stream[j].name].time \in Nat
        BY <1>1, <2>1, <3>1 DEF IInv, SenderInv, Sent, Shape, File
      <3> QED
        BY <3>1, <3>2 DEF Sent
    <2>3. n \in DOMAIN frozen => \E j \in DOMAIN stream : stream[j].name = n
      BY <1>1, <2>1 DEF IInv, SenderInv, Shape, Names
    <2>4. CASE mode = "merge"
      <3>1. Delivered(n) = tree[n]
        BY <2>4 DEF Delivered
      <3>2. n \in DOMAIN frozen => Replaced(n)
        BY <1>1, <2>1, <2>3, <2>4 DEF IInv, ReceiverInv
      <3>3. tree[n] \in {Gone, Old, Unsafe} \/ Replaced(n)
        BY <1>1 DEF IInv, ReceiverInv
      <3> QED
        BY <2>2, <3>1, <3>2, <3>3 DEF Replaced
    <2>5. CASE mode = "extract"
      <3>1. fresh \in Seq(Member) /\ Len(fresh) = Len(stream) /\ \A j \in 1 .. Len(stream) : fresh[j] = stream[j]
        BY <1>1, <2>1, <2>5 DEF IInv, ReceiverInv, SameAs
      <3>2. DOMAIN fresh = DOMAIN stream /\ \A j \in DOMAIN stream : fresh[j] = stream[j]
        BY <1>1, <3>1 DEF IInv, Shape
      <3>3. CASE ~\E i \in DOMAIN fresh : fresh[i].name = n
        BY <2>3, <2>5, <3>2, <3>3 DEF Delivered
      <3>4. CASE \E i \in DOMAIN fresh : fresh[i].name = n
        <4>1. PICK j \in DOMAIN fresh : fresh[j].name = n /\ Delivered(n) = fresh[j].data
          BY <2>5, <3>4 DEF Delivered
        <4> QED
          BY <2>2, <3>2, <4>1
      <3> QED
        BY <3>3, <3>4
    <2> QED
      BY <1>1, <2>4, <2>5 DEF IInv, Shape
  <1> QED
    BY <1>1, Invariance, PTL

\* extract_archive, merge_archive: nothing is delivered before the stream has
\* ended and every member of it has been read, and nothing by a receiver that
\* refuses it.
THEOREM NothingEarly == Spec => []NothingBeforeCheck
  <1>1. ASSUME IInv PROVE NothingBeforeCheck
    <2>1. SUFFICES ASSUME NEW n \in Names, Delivered(n) >= 0
                   PROVE  ended # "open" /\ ci = Len(stream) /\ cpc \notin {"refused", "limit"}
      BY DEF NothingBeforeCheck
    <2>2. CASE mode = "merge"
      <3>1. tree[n] \notin {Gone, Old, Unsafe}
        BY <2>1, <2>2 DEF Delivered, Gone, Old, Unsafe
      <3> QED
        BY <1>1, <3>1 DEF IInv, ReceiverInv, AllRead
    <2>3. CASE mode = "extract"
      <3>1. fresh # <<>>
        BY <2>1, <2>3 DEF Delivered, Gone
      <3> QED
        BY <1>1, <3>1 DEF IInv, ReceiverInv, AllRead
    <2> QED
      BY <1>1, <2>2, <2>3 DEF IInv, Shape
  <1> QED
    BY <1>1, Invariance, PTL

-----------------------------------------------------------------------------
(* The running totals, for any number of names: where an induction would    *)
(* be, the least number that fails.                                        *)

\* Every set of naturals that is not empty has a least member.
Less == {ss \in Nat \X Nat : ss[1] < ss[2]}
LEMMA LeastNat == ASSUME NEW T \in SUBSET Nat, T # {} PROVE \E x \in T : \A y \in T : x <= y
  <1>1. IsWellFoundedOn(Less, Nat)
    BY NatLessThanWellFounded, Zenon DEF OpToRel, Less
  <1>2. PICK x \in T : \A y \in T : ~(<<y, x>> \in Less)
    BY <1>1, WFMin
  <1>3. ASSUME NEW y \in T PROVE x <= y
    <2>1. x \in Nat /\ y \in Nat /\ ~(<<y, x>> \in Less)
      BY <1>2
    <2>2. y < x => <<y, x>> \in Less
      BY <2>1 DEF Less
    <2> QED
      BY <2>1, <2>2
  <1> QED
    BY <1>3

\* The sums of the first m amounts.
Adds(a, m, f) == f \in [0 .. m -> Nat] /\ f[0] = 0 /\ \A n \in 1 .. m : f[n] = f[n - 1] + a[n]

LEMMA AddsExist == ASSUME NEW a \in [Names -> Nat] PROVE \A m \in 0 .. Members : \E f : Adds(a, m, f)
  <1> DEFINE Bad == {m \in 0 .. Members : ~\E f : Adds(a, m, f)}
  <1>1. SUFFICES ASSUME Bad # {} PROVE FALSE
    OBVIOUS
  <1>2. PICK m \in Bad : \A y \in Bad : m <= y
    <2>1. Bad \in SUBSET Nat
      OBVIOUS
    <2> HIDE DEF Bad
    <2> QED
      BY <1>1, <2>1, LeastNat
  <1>3. m \in 0 .. Members /\ ~\E f : Adds(a, m, f)
    OBVIOUS
  <1>4. m # 0
    <2>1. Adds(a, 0, [n \in 0 .. 0 |-> 0])
      BY DEF Adds
    <2> QED
      BY <1>3, <2>1
  <1>5. m - 1 \in 0 .. Members /\ m - 1 \notin Bad /\ m \in Names /\ m \in Nat
    <2>1. m - 1 \in 0 .. Members /\ ~(m <= m - 1) /\ m \in Names /\ m \in Nat
      BY <1>3, <1>4 DEF Names
    <2> HIDE DEF Bad
    <2> QED
      BY <1>2, <2>1
  <1>6. PICK f : Adds(a, m - 1, f)
    BY <1>5
  <1> HIDE DEF Bad
  <1> DEFINE g == [n \in 0 .. m |-> IF n = m THEN f[m - 1] + a[m] ELSE f[n]]
  <1>7. \A n \in 0 .. m : n # m => n \in 0 .. (m - 1)
    BY <1>5
  <1>8. f \in [0 .. (m - 1) -> Nat] /\ a[m] \in Nat
    BY <1>5, <1>6 DEF Adds
  <1>9. f[m - 1] \in Nat
    BY <1>4, <1>5, <1>8
  <1>10. g \in [0 .. m -> Nat]
    BY <1>7, <1>8, <1>9
  <1>11. g[0] = 0
    BY <1>4, <1>5, <1>6 DEF Adds
  <1>12. ASSUME NEW n \in 1 .. m PROVE g[n] = g[n - 1] + a[n]
    <2>1. n \in 0 .. m /\ n - 1 \in 0 .. m /\ n - 1 # m
      BY <1>5
    <2>2. g[n - 1] = f[n - 1]
      BY <2>1
    <2>3. CASE n = m
      BY <2>1, <2>2, <2>3
    <2>4. CASE n # m
      <3>1. n \in 1 .. (m - 1)
        BY <1>5, <2>4
      <3>2. f[n] = f[n - 1] + a[n]
        BY <3>1, <1>6 DEF Adds
      <3>3. g[n] = f[n]
        BY <2>1, <2>4
      <3> QED
        BY <2>2, <3>2, <3>3
    <2> QED
      BY <2>3, <2>4
  <1>13. Adds(a, m, g)
    BY <1>10, <1>11, <1>12 DEF Adds
  <1> QED
    BY <1>3, <1>13

LEMMA SumsFacts == ASSUME NEW a \in [Names -> Nat] PROVE Adds(a, Members, Sums(a))
  <1> DEFINE Rule(s) == [n \in 0 .. Members |-> IF n = 0 THEN 0 ELSE s[n - 1] + a[n]]
             t == Sums(a)
  <1>1. PICK f : Adds(a, Members, f)
    BY AddsExist
  <1>2. f = Rule(f)
    <2>1. \A n \in 0 .. Members : f[n] = Rule(f)[n]
      BY <1>1 DEF Adds
    <2>2. f \in [0 .. Members -> Nat] /\ Rule(f) = [n \in 0 .. Members |-> Rule(f)[n]]
      BY <1>1 DEF Adds
    <2> QED
      BY <2>1, <2>2
  <1>3. t = CHOOSE s : s = Rule(s)
    BY Zenon DEF Sums
  <1>4. t = Rule(t)
    BY <1>2, <1>3, Zenon
  <1> HIDE DEF t
  <1>5. /\ DOMAIN t = 0 .. Members /\ t = [n \in 0 .. Members |-> t[n]] /\ t[0] = 0
        /\ \A n \in 1 .. Members : t[n] = t[n - 1] + a[n]
    BY <1>4
  <1>6. \A n \in 0 .. Members : t[n] \in Nat
    <2> DEFINE Bad == {n \in 0 .. Members : t[n] \notin Nat}
    <2>1. SUFFICES ASSUME Bad # {} PROVE FALSE
      OBVIOUS
    <2>2. PICK m \in Bad : \A y \in Bad : m <= y
      <3>1. Bad \in SUBSET Nat
        OBVIOUS
      <3> HIDE DEF Bad
      <3> QED
        BY <2>1, <3>1, LeastNat
    <2>3. m \in 0 .. Members /\ t[m] \notin Nat /\ m # 0
      BY <1>5
    <2>4. m \in 1 .. Members /\ m - 1 \in 0 .. Members /\ ~(m <= m - 1) /\ a[m] \in Nat
      BY <2>3 DEF Names
    <2>5. t[m - 1] \in Nat
      BY <2>2, <2>4
    <2>6. t[m] = t[m - 1] + a[m]
      BY <1>5, <2>4
    <2> QED
      BY <2>3, <2>4, <2>5, <2>6
  <1>7. Adds(a, Members, t)
    BY <1>5, <1>6 DEF Adds
  <1> QED
    BY <1>7 DEF t

LEMMA SumsMonotone ==
  ASSUME NEW a \in [Names -> Nat], NEW m \in 0 .. Members, NEW n \in 0 .. Members, m <= n
  PROVE  Sums(a)[m] <= Sums(a)[n]
  <1> DEFINE t == Sums(a)
             Bad == {k \in 0 .. Members : m <= k /\ ~(t[m] <= t[k])}
  <1>1. t \in [0 .. Members -> Nat] /\ \A k \in 1 .. Members : t[k] = t[k - 1] + a[k]
    BY SumsFacts DEF Adds
  <1> HIDE DEF t
  <1>2. SUFFICES ASSUME Bad # {} PROVE FALSE
    BY DEF t
  <1>3. PICK k \in Bad : \A y \in Bad : k <= y
    <2>1. Bad \in SUBSET Nat
      OBVIOUS
    <2> HIDE DEF Bad
    <2> QED
      BY <1>2, <2>1, LeastNat
  <1>4. k \in 0 .. Members /\ m <= k /\ ~(t[m] <= t[k]) /\ k # m
    BY <1>1
  <1>5. k \in 1 .. Members /\ k - 1 \in 0 .. Members /\ m <= k - 1 /\ ~(k <= k - 1) /\ a[k] \in Nat
    BY <1>4 DEF Names
  <1>6. t[m] <= t[k - 1]
    BY <1>3, <1>5
  <1>7. t[k] = t[k - 1] + a[k] /\ t[k] \in Nat /\ t[k - 1] \in Nat /\ t[m] \in Nat
    BY <1>1, <1>5
  <1> QED
    BY <1>4, <1>5, <1>6, <1>7

-----------------------------------------------------------------------------
(* The limits.                                                             *)

\* The inputs the sender has accepted.
Accepted == (\A n \in DOMAIN frozen : frozen[n].size >= 0) /\ WithinLimits(frozen)

\* The members of the stream are accepted inputs, each once, in order.
OrderInv ==
    /\ spc \in {"next", "opened"} \/ stream # <<>> => Accepted
    /\ \A i \in DOMAIN stream :
           /\ stream[i].name \in DOMAIN frozen /\ stream[i].size = frozen[stream[i].name].size
           /\ spc \in {"next", "opened"} => stream[i].name < si
    /\ \A i, j \in DOMAIN stream : i < j => stream[i].name < stream[j].name

\* What the receiver has counted is no more than what the sender has.
CountInv ==
    /\ most \in {1, MaxMembers} /\ total \in Nat /\ count \in Nat
    /\ ci = 0 => total = 0
    /\ ci > 0 => total <= Sums(Amounts(frozen))[stream[ci].name]
    /\ count <= total + ci * 1023

LimitInv == OrderInv /\ CountInv /\ LimitsAgree

LEMMA AmountsType == ASSUME IInv, Accepted PROVE Amounts(frozen) \in [Names -> Nat]
  <1>1. \A n \in DOMAIN frozen : frozen[n].size \in Int /\ frozen[n].size >= 0
    BY DEF IInv, Shape, File, Accepted
  <1> QED
    BY <1>1 DEF Amounts

LEMMA LimitInit == Init => LimitInv
  <1> SUFFICES ASSUME Init PROVE LimitInv
    OBVIOUS
  <1>1. OrderInv
    BY DEF Init, OrderInv
  <1>2. CountInv /\ LimitsAgree
    BY DEF Init, CountInv, LimitsAgree
  <1> QED
    BY <1>1, <1>2 DEF LimitInv

\* A step that leaves the stream and what was frozen as they are.
LEMMA OrderKept ==
  ASSUME IInv, OrderInv, UNCHANGED <<frozen, stream>>, si' \in Nat, si <= si',
         spc' \in {"next", "opened"} => spc \in {"next", "opened"}
  PROVE  OrderInv'
  <1>1. Accepted' = Accepted
    BY DEF Accepted, WithinLimits, Total
  <1>2. \A i \in DOMAIN stream : stream[i].name \in Nat
    BY Carried DEF Names
  <1>3. si \in Nat
    BY DEF IInv, Shape
  <1> QED
    BY <1>1, <1>2, <1>3 DEF OrderInv

LEMMA CountKept ==
  ASSUME CountInv, LimitsAgree, UNCHANGED <<frozen, most, total, count, cpc, ci>>,
         ci > 0 => stream'[ci] = stream[ci]
  PROVE  CountInv' /\ LimitsAgree'
  BY DEF CountInv, LimitsAgree

LEMMA SenderLimits ==
  ASSUME IInv, LimitInv,
         \/ \E n \in Names : SourceChanges(n)
         \/ OpenMember \/ CloseArchive \/ Recheck \/ SenderDies
  PROVE  LimitInv'
  <1>1. /\ UNCHANGED <<frozen, stream>> /\ UNCHANGED receiverVars
        /\ spc' \in {"next", "opened"} => spc \in {"next", "opened"}
        /\ si' = si \/ si' = si + 1
    BY DEF SourceChanges, senderVars, OpenMember, CloseArchive, Recheck, SenderDies
  <1>2. si \in Nat /\ si' \in Nat /\ si <= si'
    BY <1>1 DEF IInv, Shape
  <1>3. OrderInv'
    BY <1>1, <1>2, OrderKept DEF LimitInv
  <1>4. CountInv' /\ LimitsAgree'
    BY <1>1, CountKept DEF LimitInv, receiverVars
  <1> QED
    BY <1>3, <1>4 DEF LimitInv

LEMMA FreezeLimits == ASSUME NEW names \in SUBSET Names, IInv, LimitInv, Freeze(names) PROVE LimitInv'
  <1>1. spc = "idle" /\ UNCHANGED stream /\ UNCHANGED receiverVars /\ si' = si
    BY DEF Freeze
  <1>2. stream = <<>> /\ Len(stream) = 0
    BY <1>1 DEF IInv, SenderInv
  <1>3. spc' = "next" => Accepted'
    <2>1. SUFFICES ASSUME spc' = "next" PROVE Accepted'
      OBVIOUS
    <2>2. frozen' = Inputs(names) /\ MayFreeze(names)
      BY <2>1 DEF Freeze
    <2>3. WithinLimits(frozen')
      BY <2>2 DEF MayFreeze
    <2>4. \A n \in DOMAIN frozen' : frozen'[n].size >= 0
      BY <2>2 DEF MayFreeze, Inputs
    <2> QED
      BY <2>3, <2>4 DEF Accepted, WithinLimits, Total
  <1>4. spc' \in {"next", "failed"}
    BY DEF Freeze
  <1>5. OrderInv'
    BY <1>1, <1>2, <1>3, <1>4 DEF OrderInv
  <1>6. ci = 0
    BY <1>2 DEF IInv, Shape
  <1>7. CountInv' /\ LimitsAgree'
    BY <1>1, <1>6 DEF LimitInv, CountInv, LimitsAgree, receiverVars
  <1> QED
    BY <1>5, <1>7 DEF LimitInv

LEMMA AddLimits == ASSUME IInv, LimitInv, AddMember PROVE LimitInv'
  <1>1. frozen' = frozen /\ UNCHANGED receiverVars /\ spc = "opened"
    BY DEF AddMember
  <1>2. si \in DOMAIN frozen /\ si \in Names /\ si \in Nat /\ ci \in 0 .. Len(stream) /\ Len(stream) \in Nat
    BY <1>1 DEF IInv, Shape, SenderInv, Names
  <1>3. CASE spc' = "failed" /\ UNCHANGED <<si, stream>>
    <2>1. OrderInv'
      BY <1>1, <1>2, <1>3, OrderKept DEF LimitInv
    <2>2. CountInv' /\ LimitsAgree'
      BY <1>1, <1>3, CountKept DEF LimitInv, receiverVars
    <2> QED
      BY <2>1, <2>2 DEF LimitInv
  <1>4. ASSUME NEW time \in {frozen[si].time, src[si].time},
               stream' = Append(stream, [name |-> si, size |-> frozen[si].size, data |-> time]),
               spc' = "next", si' = si + 1
        PROVE  LimitInv'
    <2> DEFINE m == [name |-> si, size |-> frozen[si].size, data |-> time]
    <2>1. m.name = si /\ m.size = frozen[si].size /\ m \in Member
      BY <1>2 DEF IInv, Shape, File, Member
    <2> HIDE DEF m
    <2>2. /\ DOMAIN stream' = 1 .. (Len(stream) + 1) /\ DOMAIN stream = 1 .. Len(stream)
          /\ stream'[Len(stream) + 1] = m /\ \A j \in DOMAIN stream : stream'[j] = stream[j]
      BY <1>4, <2>1 DEF IInv, Shape, m
    <2>3. Accepted' = Accepted
      BY <1>1 DEF Accepted, WithinLimits, Total
    <2>4. Accepted
      BY <1>1 DEF LimitInv, OrderInv
    <2>5. ASSUME NEW i \in DOMAIN stream'
          PROVE  /\ stream'[i].name \in DOMAIN frozen /\ stream'[i].size = frozen[stream'[i].name].size
                 /\ stream'[i].name < si + 1
                 /\ i \in DOMAIN stream => stream'[i].name < si
      <3>1. CASE i = Len(stream) + 1
        BY <3>1, <1>2, <2>1, <2>2
      <3>2. CASE i # Len(stream) + 1
        <4>1. i \in DOMAIN stream /\ stream'[i] = stream[i]
          BY <3>2, <1>2, <2>2
        <4>2. stream[i].name \in Nat
          BY <4>1, Carried DEF Names
        <4>3. /\ stream[i].name \in DOMAIN frozen /\ stream[i].size = frozen[stream[i].name].size
              /\ stream[i].name < si
          BY <1>1, <4>1 DEF LimitInv, OrderInv
        <4> QED
          BY <1>2, <4>1, <4>2, <4>3
      <3> QED
        BY <3>1, <3>2
    <2>6. ASSUME NEW i \in DOMAIN stream', NEW j \in DOMAIN stream', i < j PROVE stream'[i].name < stream'[j].name
      <3>1. i \in DOMAIN stream /\ stream'[i] = stream[i]
        BY <2>2, <2>6, <1>2
      <3>2. CASE j = Len(stream) + 1
        BY <3>1, <3>2, <2>1, <2>2, <2>5
      <3>3. CASE j # Len(stream) + 1
        <4>1. j \in DOMAIN stream /\ stream'[j] = stream[j]
          BY <3>3, <1>2, <2>2
        <4> QED
          BY <3>1, <4>1, <2>6 DEF LimitInv, OrderInv
      <3> QED
        BY <3>2, <3>3
    <2>7. OrderInv'
      BY <1>1, <1>4, <2>3, <2>4, <2>5, <2>6 DEF OrderInv
    <2>8. ci > 0 => stream'[ci] = stream[ci]
      BY <1>2, <2>2
    <2>9. CountInv' /\ LimitsAgree'
      BY <1>1, <2>8, CountKept DEF LimitInv, receiverVars
    <2> QED
      BY <2>7, <2>9 DEF LimitInv
  <1> QED
    BY <1>3, <1>4 DEF AddMember

\* There are no more members than inputs, and so no more than the limit.
LEMMA FewMembers == ASSUME IInv, LimitInv, stream # <<>> PROVE Len(stream) <= MaxMembers
  <1> DEFINE f == [i \in 1 .. Len(stream) |-> stream[i].name]
  <1>1. Len(stream) \in Nat /\ DOMAIN stream = 1 .. Len(stream)
    BY DEF IInv, Shape
  <1>2. \A i \in 1 .. Len(stream) : stream[i].name \in DOMAIN frozen /\ stream[i].name \in Nat
    BY <1>1, Carried DEF LimitInv, OrderInv, Names
  <1>3. \A i, j \in 1 .. Len(stream) : i < j => stream[i].name < stream[j].name
    BY <1>1 DEF LimitInv, OrderInv
  <1>4. f \in [1 .. Len(stream) -> DOMAIN frozen]
    BY <1>2
  <1>5. ASSUME NEW i \in 1 .. Len(stream), NEW j \in 1 .. Len(stream), f[i] = f[j] PROVE i = j
    BY <1>1, <1>2, <1>3, <1>5
  <1> HIDE DEF f
  <1>6. f \in Injection(1 .. Len(stream), DOMAIN frozen)
    BY <1>4, <1>5 DEF Injection, IsInjective
  <1>7. IsFiniteSet(DOMAIN frozen)
    <2>1. IsFiniteSet(1 .. Members)
      BY FS_Interval
    <2> QED
      BY <2>1, FS_Subset DEF IInv, Shape, Names
  <1>8. Cardinality(1 .. Len(stream)) <= Cardinality(DOMAIN frozen)
    BY <1>6, <1>7, FS_Injection
  <1>9. Cardinality(1 .. Len(stream)) = Len(stream)
    BY <1>1, FS_Interval
  <1>10. Cardinality(DOMAIN frozen) <= MaxMembers /\ Cardinality(DOMAIN frozen) \in Nat
    BY <1>7, FS_CardinalityType DEF LimitInv, OrderInv, Accepted, WithinLimits
  <1> QED
    BY <1>1, <1>8, <1>9, <1>10

\* What tar adds to a member, and to the end, is within what raw_limit allows.
LEMMA StoredBound == ASSUME NEW n \in Nat PROVE Stored(n) \in Nat /\ Stored(n) <= n + 1023
  BY DEF Stored, RoundUp, Block
LEMMA EndBound ==
  ASSUME NEW n \in Nat
  PROVE  RoundUp(n + 2 * Block, Record) \in Nat /\ RoundUp(n + 2 * Block, Record) <= n + 11263
  BY DEF RoundUp, Block, Record

\* The sums of the receiver, against those of the sender.
LEMMA WithinTotal ==
  ASSUME IInv, LimitInv, ci > 0
  PROVE  total <= MaxBytes /\ ci <= MaxMembers
  <1>1. ci \in Nat /\ Len(stream) \in Nat /\ ci <= Len(stream) /\ stream # <<>> /\ ci \in DOMAIN stream
    BY DEF IInv, Shape
  <1>2. Amounts(frozen) \in [Names -> Nat] /\ Total(frozen) <= MaxBytes
    BY <1>1, AmountsType DEF LimitInv, OrderInv, Accepted, WithinLimits
  <1>3. stream[ci].name \in 0 .. Members /\ stream[ci].name <= Members /\ Members \in 0 .. Members
    BY <1>1, Carried DEF Names
  <1>4. Sums(Amounts(frozen))[stream[ci].name] <= Sums(Amounts(frozen))[Members]
    BY <1>2, <1>3, SumsMonotone
  <1>5. Sums(Amounts(frozen))[stream[ci].name] \in Nat /\ Sums(Amounts(frozen))[Members] \in Nat
    BY <1>2, <1>3, SumsFacts DEF Adds
  <1>6. total \in Nat /\ total <= Sums(Amounts(frozen))[stream[ci].name]
    BY DEF LimitInv, CountInv
  <1>7. total <= MaxBytes
    BY <1>2, <1>4, <1>5, <1>6 DEF Total
  <1>8. Len(stream) <= MaxMembers
    BY <1>1, FewMembers
  <1> QED
    BY <1>1, <1>7, <1>8

\* One more member is counted.
LEMMA CountOne ==
  ASSUME NEW sum \in Nat, NEW bytes \in Nat, NEW i \in Nat, NEW size \in Nat, NEW stored \in Nat,
         bytes <= sum + i * 1023, stored <= size + 1023
  PROVE  bytes + stored <= (sum + size) + (i + 1) * 1023 /\ sum + size \in Nat /\ bytes + stored \in Nat
  OBVIOUS

LEMMA ReadLimits == ASSUME IInv, LimitInv, ReadMember PROVE LimitInv'
  <1> DEFINE member == stream[ci + 1]
  <1>1. /\ UNCHANGED <<src, clock, senderVars, mode, empty, most, fresh, tree>> /\ cpc = "reading" /\ ci < Len(stream)
        /\ ci' = ci + 1 /\ total' = total + member.size /\ count' = count + Stored(member.size)
        /\ cpc' = cpc \/ (~MayRead /\ cpc' = "limit")
    BY DEF ReadMember, Leave
  <1>2. ci \in Nat /\ Len(stream) \in Nat /\ ci + 1 \in DOMAIN stream /\ stream # <<>>
    BY <1>1 DEF IInv, Shape
  <1>3. frozen' = frozen /\ stream' = stream /\ spc' = spc /\ si' = si
    BY <1>1 DEF senderVars
  <1>4. IInv'
    BY ReadMemberStep
  <1>5. OrderInv'
    BY <1>3, OrderKept DEF LimitInv, IInv, Shape
  <1>6. Accepted /\ Amounts(frozen) \in [Names -> Nat]
    BY <1>2, AmountsType DEF LimitInv, OrderInv
  <1>7. /\ member.name \in DOMAIN frozen /\ member.size = frozen[member.name].size /\ member.name \in Names
    BY <1>2, Carried DEF LimitInv, OrderInv
  <1>8. Amounts(frozen)[member.name] = member.size /\ member.size \in Nat
    BY <1>6, <1>7 DEF Amounts
  <1> DEFINE t == Sums(Amounts(frozen))
             k == member.name
  <1>9. k \in Nat /\ k - 1 \in 0 .. Members /\ k \in 1 .. Members
    BY <1>7 DEF Names
  <1>10. t[k] = t[k - 1] + member.size /\ t[k - 1] \in Nat /\ t[k] \in Nat
    <2>1. Adds(Amounts(frozen), Members, t)
      BY <1>6, SumsFacts
    <2> HIDE DEF t, k
    <2>2. t[k] = t[k - 1] + Amounts(frozen)[k] /\ t[k - 1] \in Nat /\ t[k] \in Nat
      BY <1>9, <2>1 DEF Adds
    <2> QED
      BY <1>8, <2>2 DEF k
  <1>11. total <= t[k - 1] /\ total \in Nat /\ count \in Nat /\ count <= total + ci * 1023
    <2>1. total \in Nat /\ count \in Nat /\ count <= total + ci * 1023
      BY DEF LimitInv, CountInv
    <2>2. CASE ci = 0
      BY <1>10, <2>1, <2>2 DEF LimitInv, CountInv
    <2>3. CASE ci > 0
      <3>1. ci \in DOMAIN stream
        BY <1>1, <1>2, <2>3 DEF IInv, Shape
      <3>2. stream[ci].name \in Names
        BY <3>1, Carried
      <3>3. stream[ci].name < k
        BY <1>2, <3>1 DEF LimitInv, OrderInv
      <3>4. stream[ci].name \in 0 .. Members /\ stream[ci].name <= k - 1
        BY <3>2, <3>3, <1>9 DEF Names
      <3>5. t[stream[ci].name] <= t[k - 1]
        BY <1>6, <1>9, <3>4, SumsMonotone
      <3>6. t[stream[ci].name] \in Nat /\ total <= t[stream[ci].name]
        BY <1>6, <2>3, <3>4, SumsFacts DEF Adds, LimitInv, CountInv
      <3> QED
        BY <1>10, <2>1, <3>5, <3>6
    <2> QED
      BY <1>2, <2>2, <2>3
  <1>12. Stored(member.size) \in Nat /\ Stored(member.size) <= member.size + 1023
    BY <1>8, StoredBound
  <1> HIDE DEF t
  <1>13. total' <= t[k] /\ total' \in Nat /\ count' \in Nat /\ count' <= total' + ci' * 1023
    <2>1. total' = total + member.size /\ count' = count + Stored(member.size) /\ ci' = ci + 1
      BY <1>1
    <2>2. /\ count + Stored(member.size) <= (total + member.size) + (ci + 1) * 1023
          /\ total + member.size \in Nat /\ count + Stored(member.size) \in Nat
      <3> DEFINE size == member.size
                 stored == Stored(member.size)
      <3>1. /\ total \in Nat /\ count \in Nat /\ ci \in Nat /\ size \in Nat /\ stored \in Nat
            /\ count <= total + ci * 1023 /\ stored <= size + 1023
        BY <1>2, <1>8, <1>11, <1>12, Zenon
      <3> HIDE DEF size, stored, member
      <3>2. count + stored <= (total + size) + (ci + 1) * 1023 /\ total + size \in Nat /\ count + stored \in Nat
        BY <3>1, CountOne
      <3> QED
        BY <3>2 DEF size, stored
    <2>3. total + member.size <= t[k]
      <3> HIDE DEF k, member
      <3> QED
        BY <1>8, <1>10, <1>11
    <2> QED
      BY <2>1, <2>2, <2>3, Zenon
  <1>14. CountInv'
    <2>1. stream'[ci'].name = k /\ Sums(Amounts(frozen'))  = t
      BY <1>1, <1>3 DEF t
    <2>2. most' = most /\ most \in {1, MaxMembers} /\ ci' # 0
      BY <1>1, <1>2 DEF LimitInv, CountInv
    <2> HIDE DEF k
    <2> QED
      BY <1>13, <2>1, <2>2 DEF CountInv
  <1>15. LimitsAgree'
    <2>1. SUFFICES ASSUME cpc' = "limit", ~(most < MaxMembers) PROVE FALSE
      BY <1>1 DEF LimitsAgree
    <2>2. most = MaxMembers /\ most \in Nat \ {0}
      BY <2>1 DEF LimitInv, CountInv
    <2>3. total' <= MaxBytes /\ ci' <= MaxMembers
      <3>1. k \in 0 .. Members /\ k <= Members /\ Members \in 0 .. Members
        BY <1>9
      <3> HIDE DEF k
      <3>2. t[k] <= t[Members] /\ t[Members] \in Nat
        BY <3>1, <1>6, SumsMonotone, SumsFacts DEF t, Adds
      <3>3. t[Members] <= MaxBytes
        BY <1>6 DEF Accepted, WithinLimits, Total, t
      <3>4. Len(stream) <= MaxMembers
        BY <1>2, FewMembers
      <3>5. total' <= MaxBytes
        BY <1>10, <1>13, <3>2, <3>3 DEF k
      <3> QED
        BY <1>1, <1>2, <3>4, <3>5
    <2>4. count' <= RawLimit
      <3>1. ci' \in Nat /\ count' <= total' + ci' * 1023
        BY <1>1, <1>2, <1>13
      <3>2. total' \in Nat /\ count' \in Nat /\ most \in Nat /\ ci' <= most
        BY <1>13, <2>2, <2>3
      <3> DEFINE bytes == count'
                 sum == total'
                 i == ci'
      <3>3. /\ sum \in Nat /\ bytes \in Nat /\ i \in Nat /\ most \in Nat
            /\ bytes <= sum + i * 1023 /\ sum <= MaxBytes /\ i <= most
        BY <2>3, <3>1, <3>2, Zenon
      <3> HIDE DEF bytes, sum, i
      <3>4. bytes <= MaxBytes + most * Overhead + 10240
        BY <3>3 DEF Overhead
      <3> QED
        BY <3>4 DEF RawLimit, bytes
    <2>5. MayRead
      BY <2>2, <2>3, <2>4 DEF MayRead
    <2> QED
      BY <1>1, <2>1, <2>5
  <1> QED
    BY <1>5, <1>14, <1>15 DEF LimitInv

\* The steps of the receiver that read no member.
LEMMA OtherLimits ==
  ASSUME IInv, LimitInv,
         Receive \/ StreamRefused \/ Publish \/ CheckTargets \/ ReplaceOne \/ Merged \/ ReceiverDies
  PROVE  LimitInv'
  <1>1. /\ UNCHANGED <<senderVars, most, ci, total, count>>
        /\ cpc' = "limit" => StreamRefused
    BY DEF Receive, StreamRefused, Publish, CheckTargets, ReplaceOne, Merged, ReceiverDies, Leave
  <1>2. spc' = spc /\ frozen' = frozen /\ si' = si /\ stream' = stream
    BY <1>1 DEF senderVars
  <1>3. OrderInv'
    BY <1>2, OrderKept DEF LimitInv, IInv, Shape
  <1>4. CountInv'
    BY <1>1, <1>2 DEF LimitInv, CountInv
  <1>5. LimitsAgree'
    <2>1. SUFFICES ASSUME cpc' = "limit", ~(most < MaxMembers) PROVE FALSE
      BY <1>1 DEF LimitsAgree
    <2>2. RawBytes > RawLimit
      BY <1>1, <2>1 DEF StreamRefused, Leave
    <2>3. most = MaxMembers /\ most \in Nat \ {0}
      BY <2>1 DEF LimitInv, CountInv
    <2>4. count \in Nat /\ total \in Nat /\ ci \in Nat /\ count <= total + ci * 1023
      BY DEF LimitInv, CountInv, IInv, Shape
    <2>5. total <= MaxBytes /\ ci <= MaxMembers
      <3>1. CASE ci = 0
        BY <3>1 DEF LimitInv, CountInv
      <3>2. CASE ci > 0
        BY <3>2, WithinTotal
      <3> QED
        BY <2>4, <3>1, <3>2
    <2>6. RawBytes <= count + 11263 /\ RawBytes \in Nat
      BY <2>4, EndBound DEF RawBytes
    <2>7. count + 11263 <= RawLimit
      BY <2>3, <2>4, <2>5 DEF RawLimit, Overhead
    <2>8. RawLimit \in Nat
      BY <2>3 DEF RawLimit, Overhead
    <2> QED
      BY <2>2, <2>4, <2>6, <2>7, <2>8
  <1> QED
    BY <1>3, <1>4, <1>5 DEF LimitInv

LEMMA LimitNext == ASSUME IInv, LimitInv, [Next]_vars PROVE LimitInv'
  <1>1. CASE UNCHANGED vars
    <2>1. UNCHANGED <<frozen, stream, si, spc, most, total, count, cpc, ci>>
      BY <1>1 DEF vars
    <2>2. OrderInv'
      BY <2>1, OrderKept DEF LimitInv, IInv, Shape
    <2>3. CountInv' /\ LimitsAgree'
      BY <2>1, CountKept DEF LimitInv
    <2> QED
      BY <2>2, <2>3 DEF LimitInv
  <1>2. ASSUME NEW names \in SUBSET Names, Freeze(names) PROVE LimitInv'
    BY <1>2, FreezeLimits
  <1> QED
    BY <1>1, <1>2, SenderLimits, AddLimits, ReadLimits, OtherLimits DEF Next

\* raw_limit and _BoundedReader: whatever the sizes, a receiver with the limits
\* of the sender reads the whole tar of what the sender has accepted, with the
\* headers, the padding and the end that tar adds.
THEOREM LimitsKept == Spec => []LimitsAgree
  <1>1. Spec => []LimitInv
    BY LimitInit, LimitNext, Invariance, PTL DEF Spec
  <1>2. LimitInv => LimitsAgree
    BY DEF LimitInv
  <1> QED
    BY <1>1, <1>2, PTL
=============================================================================
