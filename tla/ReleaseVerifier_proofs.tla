----------------------- MODULE ReleaseVerifier_proofs -----------------------
(***************************************************************************)
(* Proofs about ReleaseVerifier, for any set of missing controls, any      *)
(* number of environments and, but for the last theorem, any usage plan.   *)
(*                                                                         *)
(* What a step of the script shows is a fact about the stack that outlasts *)
(* the step, except for the absence of a marker: for that the proof        *)
(* follows the probe's marker through the log, into the stream that the    *)
(* barrier's is in, and before it.  That a complete stack passes is an     *)
(* account of the usage plan's tokens along the script.                    *)
(***************************************************************************)
EXTENDS ReleaseVerifier, TLAPS

(***************************************************************************)
(* The script, block by block.                                             *)
(***************************************************************************)
IsScript(s) == \E S: s \in Seq(S)

Asks(s, i) == s[i].do = "ask"
Marked(s, i) == Asks(s, i) /\ s[i].mark # NoMark
Probing(m) == m # NoMark /\ m[2] = "probe"
ProbesFor(s, i, m) == Asks(s, i) /\ s[i].code = 400 /\ s[i].mark = m

\* Every marker is in M and is asked once, by a request that may be refused or is
\* answered 200; a look-up takes a number of calls.
WellFormed(s, M) ==
    /\ \A i \in 1..Len(s): s[i].do = "look" => s[i].calls \in Nat
    /\ \A i \in 1..Len(s): Asks(s, i) => s[i].code \in {200, 400, 403}
    /\ \A i \in 1..Len(s): Marked(s, i) => s[i].mark \in M /\ s[i].code # 403
    /\ \A i, j \in 1..Len(s): Marked(s, i) /\ Marked(s, j) /\ s[i].mark = s[j].mark => i = j

\* An absence is asked for after the probe, a later barrier and the wait for it.
AbsencesFollowBarriers(s) ==
    \A x \in 1..Len(s): s[x].do = "absent" =>
        \E i, j, w \in 1..(x - 1):
            /\ i < j
            /\ ProbesFor(s, i, s[x].mark) /\ Probing(s[x].mark)
            /\ Marked(s, j) /\ s[j].code = 200
            /\ s[w].do = "wait" /\ s[w].mark = s[j].mark

\* Each probe is followed by a look for its marker.
ProbesAreChecked(s) ==
    \A i \in 1..Len(s): Marked(s, i) /\ s[i].code = 400 =>
        \E x \in 1..Len(s): s[x].do = "absent" /\ s[x].mark = s[i].mark

Sound(s, M) ==
    IsScript(s) /\ WellFormed(s, M) /\ AbsencesFollowBarriers(s) /\ ProbesAreChecked(s)

Contents(s) == {s[i] : i \in 1..Len(s)}

\* The places of two scripts, one after the other.
LEMMA Joined ==
    ASSUME NEW s, NEW t, IsScript(s), IsScript(t)
    PROVE  /\ IsScript(s \o t)
           /\ Len(s) \in Nat /\ Len(t) \in Nat /\ Len(s \o t) = Len(s) + Len(t)
           /\ \A i \in 1..Len(s): i \in 1..Len(s \o t) /\ (s \o t)[i] = s[i]
           /\ \A i \in 1..Len(t): Len(s) + i \in 1..Len(s \o t) /\ (s \o t)[Len(s) + i] = t[i]
           /\ \A i \in 1..Len(s \o t): i \in 1..Len(s) \/ \E k \in 1..Len(t): i = Len(s) + k
<1>s. PICK S: s \in Seq(S)
  BY DEF IsScript
<1>t. PICK T: t \in Seq(T)
  BY DEF IsScript
<1>0. s \in Seq(S \cup T) /\ t \in Seq(S \cup T)
  BY <1>s, <1>t
<1>1. Len(s) \in Nat /\ Len(t) \in Nat
  BY <1>0
<1>2. s \o t \in Seq(S \cup T) /\ Len(s \o t) = Len(s) + Len(t)
  BY <1>0
<1>3. \A i \in 1..Len(s): i \in 1..Len(s \o t) /\ (s \o t)[i] = s[i]
  BY <1>0, <1>1
<1>4. \A i \in 1..Len(t): Len(s) + i \in 1..Len(s \o t) /\ (s \o t)[Len(s) + i] = t[i]
  BY <1>0, <1>1
<1>5. ASSUME NEW i \in 1..Len(s \o t), i \notin 1..Len(s)
      PROVE  \E k \in 1..Len(t): i = Len(s) + k
  <2>1. i - Len(s) \in 1..Len(t) /\ i = Len(s) + (i - Len(s))
    BY <1>1, <1>2, <1>5
  <2> QED BY <2>1
<1> QED BY <1>1, <1>2, <1>3, <1>4, <1>5 DEF IsScript

LEMMA ContentsJoin ==
    ASSUME NEW s, NEW t, IsScript(s), IsScript(t)
    PROVE  IsScript(s \o t) /\ Contents(s \o t) = Contents(s) \cup Contents(t)
<1> DEFINE st == s \o t
<1>1. /\ IsScript(st)
      /\ \A i \in 1..Len(s): i \in 1..Len(st) /\ st[i] = s[i]
      /\ \A i \in 1..Len(t): Len(s) + i \in 1..Len(st) /\ st[Len(s) + i] = t[i]
      /\ \A i \in 1..Len(st): i \in 1..Len(s) \/ \E k \in 1..Len(t): i = Len(s) + k
  BY Joined
<1> HIDE DEF st
<1>2. ASSUME NEW i \in 1..Len(st) PROVE st[i] \in Contents(s) \cup Contents(t)
  <2>1. CASE i \in 1..Len(s)
    BY <2>1, <1>1 DEF Contents
  <2>2. ASSUME NEW k \in 1..Len(t), i = Len(s) + k PROVE st[i] \in Contents(t)
    BY <2>2, <1>1 DEF Contents
  <2> QED BY <1>1, <2>1, <2>2
<1>3. ASSUME NEW i \in 1..Len(s) PROVE s[i] \in Contents(st)
  BY <1>1 DEF Contents
<1>4. ASSUME NEW i \in 1..Len(t) PROVE t[i] \in Contents(st)
  <2>1. Len(s) + i \in 1..Len(st) /\ st[Len(s) + i] = t[i]
    BY <1>1
  <2> QED BY <2>1 DEF Contents
<1>5. Contents(st) = Contents(s) \cup Contents(t)
  BY <1>2, <1>3, <1>4 DEF Contents
<1> QED BY <1>1, <1>5 DEF st

\* Two sound scripts with different markers, one after the other, are sound.
LEMMA SoundScriptsJoin ==
    ASSUME NEW s, NEW t, NEW M, NEW N, Sound(s, M), Sound(t, N), M \cap N = {}
    PROVE  Sound(s \o t, M \cup N)
<1> DEFINE st == s \o t
<1>1. /\ IsScript(st)
      /\ Len(s) \in Nat /\ Len(t) \in Nat /\ Len(st) = Len(s) + Len(t)
      /\ \A i \in 1..Len(s): i \in 1..Len(st) /\ st[i] = s[i]
      /\ \A i \in 1..Len(t): Len(s) + i \in 1..Len(st) /\ st[Len(s) + i] = t[i]
      /\ \A i \in 1..Len(st): i \in 1..Len(s) \/ \E k \in 1..Len(t): i = Len(s) + k
  BY Joined DEF Sound
<1> HIDE DEF st
<1>2. WellFormed(s, M) /\ WellFormed(t, N)
  BY DEF Sound
<1>3. WellFormed(st, M \cup N)
  <2>0. ASSUME NEW i \in 1..Len(st)
        PROVE  /\ st[i].do = "look" => st[i].calls \in Nat
               /\ Asks(st, i) => st[i].code \in {200, 400, 403}
               /\ Marked(st, i) => st[i].mark \in M \cup N /\ st[i].code # 403
    <3>1. CASE i \in 1..Len(s)
      <4>1. st[i] = s[i]
        BY <3>1, <1>1
      <4> QED BY <4>1, <3>1, <1>2 DEF WellFormed, Asks, Marked
    <3>2. ASSUME NEW k \in 1..Len(t), i = Len(s) + k
          PROVE  /\ st[i].do = "look" => st[i].calls \in Nat
                 /\ Asks(st, i) => st[i].code \in {200, 400, 403}
                 /\ Marked(st, i) => st[i].mark \in M \cup N /\ st[i].code # 403
      <4>1. st[i] = t[k]
        BY <3>2, <1>1
      <4> QED BY <4>1, <1>2 DEF WellFormed, Asks, Marked
    <3> QED BY <1>1, <3>1, <3>2
  <2>3. ASSUME NEW i \in 1..Len(st), NEW j \in 1..Len(st),
               Marked(st, i), Marked(st, j), st[i].mark = st[j].mark
        PROVE  i = j
    <3>1. CASE i \in 1..Len(s) /\ j \in 1..Len(s)
      BY <3>1, <2>3, <1>1, <1>2 DEF WellFormed, Asks, Marked
    <3>2. ASSUME NEW k \in 1..Len(t), NEW l \in 1..Len(t), i = Len(s) + k, j = Len(s) + l
          PROVE  i = j
      <4>1. st[i] = t[k] /\ st[j] = t[l]
        BY <3>2, <1>1
      <4> QED BY <4>1, <3>2, <2>3, <1>2 DEF WellFormed, Asks, Marked
    <3>3. ASSUME i \in 1..Len(s), NEW l \in 1..Len(t), j = Len(s) + l PROVE FALSE
      <4>1. st[i] = s[i] /\ st[j] = t[l]
        BY <3>3, <1>1
      <4> QED BY <4>1, <3>3, <2>3, <1>2 DEF WellFormed, Asks, Marked
    <3>4. ASSUME j \in 1..Len(s), NEW l \in 1..Len(t), i = Len(s) + l PROVE FALSE
      <4>1. st[j] = s[j] /\ st[i] = t[l]
        BY <3>4, <1>1
      <4> QED BY <4>1, <3>4, <2>3, <1>2 DEF WellFormed, Asks, Marked
    <3> QED BY <1>1, <3>1, <3>2, <3>3, <3>4
  <2> QED BY <2>0, <2>3 DEF WellFormed
<1>4. AbsencesFollowBarriers(st)
  <2> SUFFICES ASSUME NEW x \in 1..Len(st), st[x].do = "absent"
               PROVE  \E i, j, w \in 1..(x - 1):
                          /\ i < j
                          /\ ProbesFor(st, i, st[x].mark) /\ Probing(st[x].mark)
                          /\ Marked(st, j) /\ st[j].code = 200
                          /\ st[w].do = "wait" /\ st[w].mark = st[j].mark
    BY DEF AbsencesFollowBarriers
  <2>1. CASE x \in 1..Len(s)
    <3>1. PICK i \in 1..(x - 1), j \in 1..(x - 1), w \in 1..(x - 1):
              /\ i < j
              /\ ProbesFor(s, i, s[x].mark) /\ Probing(s[x].mark)
              /\ Marked(s, j) /\ s[j].code = 200
              /\ s[w].do = "wait" /\ s[w].mark = s[j].mark
      BY <2>1, <1>1 DEF Sound, AbsencesFollowBarriers
    <3>2. i \in 1..Len(s) /\ j \in 1..Len(s) /\ w \in 1..Len(s)
      BY <2>1, <1>1
    <3>3. st[i] = s[i] /\ st[j] = s[j] /\ st[w] = s[w] /\ st[x] = s[x]
      BY <3>2, <2>1, <1>1
    <3>4. /\ ProbesFor(st, i, st[x].mark) /\ Probing(st[x].mark)
          /\ Marked(st, j) /\ st[j].code = 200
          /\ st[w].do = "wait" /\ st[w].mark = st[j].mark
      BY <3>1, <3>3 DEF ProbesFor, Marked, Asks
    <3> QED BY <3>1, <3>4
  <2>2. ASSUME NEW k \in 1..Len(t), x = Len(s) + k
        PROVE  \E i, j, w \in 1..(x - 1):
                   /\ i < j
                   /\ ProbesFor(st, i, st[x].mark) /\ Probing(st[x].mark)
                   /\ Marked(st, j) /\ st[j].code = 200
                   /\ st[w].do = "wait" /\ st[w].mark = st[j].mark
    <3>0. st[x] = t[k] /\ t[k].do = "absent"
      BY <2>2, <1>1
    <3>1. PICK i \in 1..(k - 1), j \in 1..(k - 1), w \in 1..(k - 1):
              /\ i < j
              /\ ProbesFor(t, i, t[k].mark) /\ Probing(t[k].mark)
              /\ Marked(t, j) /\ t[j].code = 200
              /\ t[w].do = "wait" /\ t[w].mark = t[j].mark
      BY <3>0 DEF Sound, AbsencesFollowBarriers
    <3>2. /\ i \in 1..Len(t) /\ j \in 1..Len(t) /\ w \in 1..Len(t)
          /\ Len(s) + i \in 1..(x - 1) /\ Len(s) + j \in 1..(x - 1) /\ Len(s) + w \in 1..(x - 1)
          /\ Len(s) + i < Len(s) + j
      <4>1. i < j
        BY <3>1
      <4> QED BY <4>1, <2>2, <1>1
    <3>3. /\ st[Len(s) + i] = t[i] /\ st[Len(s) + j] = t[j]
          /\ st[Len(s) + w] = t[w] /\ st[x] = t[k]
      BY <3>2, <2>2, <1>1
    <3>4. /\ ProbesFor(st, Len(s) + i, st[x].mark) /\ Probing(st[x].mark)
          /\ Marked(st, Len(s) + j) /\ st[Len(s) + j].code = 200
          /\ st[Len(s) + w].do = "wait" /\ st[Len(s) + w].mark = st[Len(s) + j].mark
      BY <3>1, <3>3 DEF ProbesFor, Marked, Asks
    <3> QED BY <3>2, <3>4
  <2> QED BY <1>1, <2>1, <2>2
<1>5. ProbesAreChecked(st)
  <2> SUFFICES ASSUME NEW i \in 1..Len(st), Marked(st, i), st[i].code = 400
               PROVE  \E x \in 1..Len(st): st[x].do = "absent" /\ st[x].mark = st[i].mark
    BY DEF ProbesAreChecked
  <2>1. CASE i \in 1..Len(s)
    <3>0. st[i] = s[i]
      BY <2>1, <1>1
    <3>1. PICK x \in 1..Len(s): s[x].do = "absent" /\ s[x].mark = s[i].mark
      BY <2>1, <3>0 DEF Sound, ProbesAreChecked, Marked, Asks
    <3>2. x \in 1..Len(st) /\ st[x] = s[x]
      BY <1>1
    <3> QED BY <3>0, <3>1, <3>2
  <2>2. ASSUME NEW k \in 1..Len(t), i = Len(s) + k
        PROVE  \E x \in 1..Len(st): st[x].do = "absent" /\ st[x].mark = st[i].mark
    <3>0. st[i] = t[k]
      BY <2>2, <1>1
    <3>1. PICK x \in 1..Len(t): t[x].do = "absent" /\ t[x].mark = t[k].mark
      BY <3>0 DEF Sound, ProbesAreChecked, Marked, Asks
    <3>2. Len(s) + x \in 1..Len(st) /\ st[Len(s) + x] = t[x]
      BY <1>1
    <3> QED BY <3>0, <3>1, <3>2
  <2>3. i \in 1..Len(s) \/ \E k \in 1..Len(t): i = Len(s) + k
    BY <1>1
  <2> QED BY <2>1, <2>2, <2>3
<1> QED BY <1>1, <1>3, <1>4, <1>5 DEF Sound, st

(***************************************************************************)
(* The blocks.                                                             *)
(***************************************************************************)
LEMMA AskFields ==
    \A method, key, breaks, code:
        LET a == Ask(method, key, breaks, code)
        IN /\ a.do = "ask" /\ a.method = method /\ a.key = key /\ a.breaks = breaks
           /\ a.code = code /\ a.mark = NoMark
BY DEF Ask

LEMMA ProbeFields ==
    \A m, type, breaks:
        LET a == Probe(m, type, breaks)
        IN a.do = "ask" /\ a.code = 400 /\ a.mark = <<m, "probe">>
BY DEF Ask, Probe

LEMMA OtherFields ==
    /\ \A m: Wait(m).do = "wait" /\ Wait(m).mark = m
    /\ \A m: Absent(m).do = "absent" /\ Absent(m).mark = m
    /\ \A c, calls: Look(c, calls).do = "look" /\ Look(c, calls).control = c
                           /\ Look(c, calls).calls = calls
    /\ Pause.do = "pause"
BY DEF Wait, Absent, Look, Pause

\* A block without markers of its own.
Quiet(s) ==
    \A i \in 1..Len(s):
        /\ s[i].do \in {"ask", "look", "pause", "wait"}
        /\ s[i].do = "look" => s[i].calls \in Nat
        /\ s[i].do = "ask" => s[i].mark = NoMark /\ s[i].code \in {200, 400, 403}

LEMMA QuietIsSound ==
    ASSUME NEW s, IsScript(s), Quiet(s)
    PROVE  Sound(s, {})
<1>1. \A i \in 1..Len(s): ~Marked(s, i) /\ s[i].do # "absent"
  BY DEF Quiet, Marked, Asks
<1>2. \A i \in 1..Len(s): /\ s[i].do = "look" => s[i].calls \in Nat
                          /\ Asks(s, i) => s[i].code \in {200, 400, 403}
  BY DEF Quiet, Asks
<1> QED BY <1>1, <1>2 DEF Sound, WellFormed, AbsencesFollowBarriers, ProbesAreChecked

LEMMA SingleIsScript == \A x: IsScript(<<x>>) /\ Len(<<x>>) = 1 /\ <<x>>[1] = x
<1> SUFFICES ASSUME NEW x PROVE IsScript(<<x>>) /\ Len(<<x>>) = 1 /\ <<x>>[1] = x
  OBVIOUS
<1>1. <<x>> \in Seq({x})
  OBVIOUS
<1> QED BY <1>1 DEF IsScript

LEMMA GetHealthIsSound == Sound(GetHealth, {})
<1>1. GetHealth \in Seq({GetHealth[i] : i \in 1..Len(GetHealth)})
  BY SMT DEF GetHealth
<1>2. Quiet(GetHealth)
  BY AskFields, OtherFields DEF GetHealth, Quiet
<1> QED BY <1>1, <1>2, QuietIsSound DEF IsScript

LEMMA LookIsSound == \A c: \A calls \in Nat: Sound(<<Look(c, calls)>>, {})
<1> SUFFICES ASSUME NEW c, NEW calls \in Nat PROVE Sound(<<Look(c, calls)>>, {})
  OBVIOUS
<1>1. Quiet(<<Look(c, calls)>>)
  BY OtherFields, SingleIsScript DEF Quiet
<1> QED BY <1>1, SingleIsScript, QuietIsSound

LEMMA NegativeIsSound == \A breaks: Sound(Negative(breaks), {})
<1> SUFFICES ASSUME NEW breaks PROVE Sound(Negative(breaks), {})
  OBVIOUS
<1>1. Negative(breaks) \in Seq({Negative(breaks)[i] : i \in 1..Len(Negative(breaks))})
  BY SMT DEF Negative
<1>2. Quiet(Negative(breaks))
  BY AskFields, OtherFields DEF Negative, Quiet
<1> QED BY <1>1, <1>2, QuietIsSound DEF IsScript

KeysOfPost == <<Ask("POST", "none", {}, 403), Ask("POST", "wrong", {}, 403)>>

LEMMA KeysOfPostIsSound == Sound(KeysOfPost, {})
<1>1. KeysOfPost \in Seq({KeysOfPost[i] : i \in 1..Len(KeysOfPost)})
  BY SMT DEF KeysOfPost
<1>2. Quiet(KeysOfPost)
  BY AskFields DEF KeysOfPost, Quiet
<1> QED BY <1>1, <1>2, QuietIsSound DEF IsScript

LEMMA NegativeRequestsIsSound ==
    Sound(NegativeRequests, {}) /\ KeysOfPost[1] \in Contents(NegativeRequests)
<1> DEFINE six == Negative({"required"}) \o Negative({"string"}) \o Negative({"JSON"})
                  \o Negative({"length"}) \o Negative({"closed"})
<1>1. Sound(Negative({"required"}) \o Negative({"string"}), {})
  BY NegativeIsSound, SoundScriptsJoin
<1>2. Sound(Negative({"required"}) \o Negative({"string"}) \o Negative({"JSON"}), {})
  BY <1>1, NegativeIsSound, SoundScriptsJoin
<1>3. Sound(Negative({"required"}) \o Negative({"string"}) \o Negative({"JSON"})
            \o Negative({"length"}), {})
  BY <1>2, NegativeIsSound, SoundScriptsJoin
<1>4. Sound(six, {})
  BY <1>3, NegativeIsSound, SoundScriptsJoin
<1> HIDE DEF six
<1>5. Sound(six \o KeysOfPost, {})
  BY <1>4, KeysOfPostIsSound, SoundScriptsJoin
<1>6. KeysOfPost[1] \in Contents(KeysOfPost)
  BY DEF KeysOfPost, Contents
<1>7. KeysOfPost[1] \in Contents(six \o KeysOfPost)
  BY <1>4, <1>6, KeysOfPostIsSound, ContentsJoin DEF Sound
<1> QED BY <1>5, <1>7 DEF six, NegativeRequests, KeysOfPost

LEMMA UserPathIsSound == Sound(UserPath, {<<"valid", "probe">>})
<1>1. UserPath \in Seq({UserPath[i] : i \in 1..Len(UserPath)})
  BY SMT DEF UserPath
<1>2. /\ Len(UserPath) = 4
      /\ UserPath[1].do = "ask" /\ UserPath[1].code = 200 /\ UserPath[1].mark = <<"valid", "probe">>
      /\ UserPath[2].do = "look" /\ UserPath[3].do = "wait" /\ UserPath[4].do = "look"
      /\ UserPath[2].calls \in Nat /\ UserPath[4].calls \in Nat
  BY OtherFields DEF UserPath, Ask
<1>3. \A i \in 1..Len(UserPath):
         /\ i = 1 \/ UserPath[i].do \in {"look", "wait"}
         /\ UserPath[i].do = "look" => UserPath[i].calls \in Nat
  BY <1>2
<1>4. WellFormed(UserPath, {<<"valid", "probe">>})
  BY <1>2, <1>3 DEF WellFormed, Marked, Asks
<1>5. AbsencesFollowBarriers(UserPath)
  BY <1>2, <1>3 DEF AbsencesFollowBarriers
<1>6. ProbesAreChecked(UserPath)
  BY <1>2, <1>3 DEF ProbesAreChecked, Marked, Asks
<1> QED BY <1>1, <1>4, <1>5, <1>6 DEF Sound, IsScript

MarksOf(m) == {<<m, "probe">>, <<m, "barrier">>}

LEMMA MarksDiffer ==
    ASSUME NEW m
    PROVE  /\ <<m, "probe">> # <<m, "barrier">> /\ <<m, "barrier">> # NoMark
           /\ <<m, "probe">> # NoMark /\ Probing(<<m, "probe">>)
BY DEF NoMark, Probing

LEMMA BarrierIsScript == \A m: IsScript(Barrier(m))
<1> SUFFICES ASSUME NEW m PROVE IsScript(Barrier(m))
  OBVIOUS
<1>1. Barrier(m) \in Seq({Barrier(m)[i] : i \in 1..Len(Barrier(m))})
  BY SMT DEF Barrier
<1> QED BY <1>1 DEF IsScript

\* A probe, later its barrier, the wait and the look.
LEMMA BoundaryIsSound ==
    \A m, type, breaks: Sound(Boundary(m, type, breaks), MarksOf(m))
<1> SUFFICES ASSUME NEW m, NEW type, NEW breaks
             PROVE  Sound(Boundary(m, type, breaks), MarksOf(m))
  OBVIOUS
<1> DEFINE s == Boundary(m, type, breaks)
<1>1. IsScript(s)
  <2>1. IsScript(<<Probe(m, type, breaks)>> \o Barrier(m))
    BY SingleIsScript, BarrierIsScript, Joined
  <2> QED BY <2>1, SingleIsScript, Joined DEF Boundary
<1>2. /\ Len(s) = 5
      /\ s[1] = Probe(m, type, breaks)
      /\ s[2].do = "ask" /\ s[2].code = 200 /\ s[2].mark = <<m, "barrier">>
      /\ s[3] = Wait(<<m, "barrier">>) /\ s[4] = Absent(<<m, "probe">>) /\ s[5] = Pause
  BY DEF Boundary, Barrier, Ask
<1> HIDE DEF s
<1>3. /\ s[1].do = "ask" /\ s[1].code = 400 /\ s[1].mark = <<m, "probe">>
      /\ s[3].do = "wait" /\ s[3].mark = <<m, "barrier">>
      /\ s[4].do = "absent" /\ s[4].mark = <<m, "probe">> /\ s[5].do = "pause"
  BY <1>2, ProbeFields, OtherFields
<1>4. \A i \in 1..Len(s): i \in {1, 2, 3, 4, 5}
  BY <1>2
<1>5. WellFormed(s, MarksOf(m))
  BY <1>2, <1>3, <1>4, MarksDiffer DEF WellFormed, Marked, Asks, MarksOf
<1>6. AbsencesFollowBarriers(s)
  <2> SUFFICES ASSUME NEW x \in 1..Len(s), s[x].do = "absent"
               PROVE  \E i, j, w \in 1..(x - 1):
                          /\ i < j
                          /\ ProbesFor(s, i, s[x].mark) /\ Probing(s[x].mark)
                          /\ Marked(s, j) /\ s[j].code = 200
                          /\ s[w].do = "wait" /\ s[w].mark = s[j].mark
    BY DEF AbsencesFollowBarriers
  <2>1. x = 4
    BY <1>2, <1>3, <1>4
  <2>2. 1 \in 1..(x - 1) /\ 2 \in 1..(x - 1) /\ 3 \in 1..(x - 1)
    BY <2>1
  <2>3. ProbesFor(s, 1, s[x].mark) /\ Probing(s[x].mark) /\ Marked(s, 2)
    BY <2>1, <1>2, <1>3, MarksDiffer DEF ProbesFor, Marked, Asks
  <2>4. s[2].code = 200 /\ s[3].do = "wait" /\ s[3].mark = s[2].mark /\ 1 < 2
    BY <1>2, <1>3
  <2> QED BY <2>2, <2>3, <2>4
<1>7. ProbesAreChecked(s)
  <2> SUFFICES ASSUME NEW i \in 1..Len(s), Marked(s, i), s[i].code = 400
               PROVE  \E x \in 1..Len(s): s[x].do = "absent" /\ s[x].mark = s[i].mark
    BY DEF ProbesAreChecked
  <2>1. i = 1
    BY <1>2, <1>3, <1>4 DEF Marked, Asks
  <2> QED BY <2>1, <1>2, <1>3
<1> QED BY <1>1, <1>5, <1>6, <1>7 DEF Sound, s

LEMMA StrictProbeIsSound == Sound(StrictProbe, MarksOf("strict"))
<1> DEFINE m == "strict"
           probe == Probe(m, "json", {"required", "closed"})
           s == StrictProbe
<1>1. IsScript(s)
  <2>1. <<probe, Pause>> \in Seq({probe, Pause})
    OBVIOUS
  <2>2. IsScript(<<probe, Pause>> \o Barrier(m))
    BY <2>1, BarrierIsScript, Joined DEF IsScript
  <2> QED BY <2>2, SingleIsScript, Joined DEF StrictProbe
<1>2. /\ Len(s) = 6
      /\ s[1] = probe /\ s[2] = Pause
      /\ s[3].do = "ask" /\ s[3].code = 200 /\ s[3].mark = <<m, "barrier">>
      /\ s[4] = Wait(<<m, "barrier">>)
      /\ s[5] = Absent(<<m, "probe">>) /\ s[6] = Absent(<<m, "probe">>)
  BY DEF StrictProbe, Barrier, Ask
<1>3. /\ s[1].do = "ask" /\ s[1].code = 400 /\ s[1].mark = <<m, "probe">> /\ s[2].do = "pause"
      /\ s[4].do = "wait" /\ s[4].mark = <<m, "barrier">>
      /\ s[5].do = "absent" /\ s[5].mark = <<m, "probe">>
      /\ s[6].do = "absent" /\ s[6].mark = <<m, "probe">>
  BY <1>2, ProbeFields, OtherFields
<1> HIDE DEF s, probe, m
<1>4. \A i \in 1..Len(s): i \in {1, 2, 3, 4, 5, 6}
  BY <1>2
<1>5. WellFormed(s, MarksOf(m))
  BY <1>2, <1>3, <1>4, MarksDiffer DEF WellFormed, Marked, Asks, MarksOf
<1>6. AbsencesFollowBarriers(s)
  <2> SUFFICES ASSUME NEW x \in 1..Len(s), s[x].do = "absent"
               PROVE  \E i, j, w \in 1..(x - 1):
                          /\ i < j
                          /\ ProbesFor(s, i, s[x].mark) /\ Probing(s[x].mark)
                          /\ Marked(s, j) /\ s[j].code = 200
                          /\ s[w].do = "wait" /\ s[w].mark = s[j].mark
    BY DEF AbsencesFollowBarriers
  <2>1. x \in {5, 6}
    BY <1>2, <1>3, <1>4
  <2>2. 1 \in 1..(x - 1) /\ 3 \in 1..(x - 1) /\ 4 \in 1..(x - 1)
    BY <2>1
  <2>3. ProbesFor(s, 1, s[x].mark) /\ Probing(s[x].mark) /\ Marked(s, 3)
    BY <2>1, <1>2, <1>3, MarksDiffer DEF ProbesFor, Marked, Asks
  <2>4. s[3].code = 200 /\ s[4].do = "wait" /\ s[4].mark = s[3].mark /\ 1 < 3
    BY <1>2, <1>3
  <2> QED BY <2>2, <2>3, <2>4
<1>7. ProbesAreChecked(s)
  <2> SUFFICES ASSUME NEW i \in 1..Len(s), Marked(s, i), s[i].code = 400
               PROVE  \E x \in 1..Len(s): s[x].do = "absent" /\ s[x].mark = s[i].mark
    BY DEF ProbesAreChecked
  <2>1. i = 1
    BY <1>2, <1>3, <1>4 DEF Marked, Asks
  <2> QED BY <2>1, <1>2, <1>3
<1> QED BY <1>1, <1>5, <1>6, <1>7 DEF Sound, s, m

(***************************************************************************)
(* The whole script.                                                       *)
(***************************************************************************)
LEMMA ScriptIsSound == \E M: Sound(Script, M)
<1> DEFINE p1 == GetHealth \o UserPath
           p2 == p1 \o NegativeRequests
           p3 == p2 \o StrictProbe
           p4 == p3 \o Encryption
           p5 == p4 \o Network
           p6 == p5 \o Egress
           p7 == p6 \o Throttling
           p8 == p7 \o Alias
           p9 == p8 \o Boundary("text/plain", "text", {"required", "closed"})
           p10 == p9 \o Boundary("white space", "json", {"pattern"})
           M1 == {<<"valid", "probe">>}
           M3 == M1 \cup MarksOf("strict")
           M9 == M3 \cup MarksOf("text/plain")
<1>1. Sound(p1, M1)
  BY GetHealthIsSound, UserPathIsSound, SoundScriptsJoin
<1> HIDE DEF p1
<1>2. Sound(p2, M1)
  BY <1>1, NegativeRequestsIsSound, SoundScriptsJoin
<1> HIDE DEF p2
<1>3. M1 \cap MarksOf("strict") = {}
  BY DEF MarksOf
<1>4. Sound(p3, M3)
  BY <1>2, <1>3, StrictProbeIsSound, SoundScriptsJoin
<1> HIDE DEF p3
<1>5. M3 \cap MarksOf("text/plain") = {}
  BY DEF MarksOf
<1>6. M9 \cap MarksOf("white space") = {}
  BY DEF MarksOf
<1> HIDE DEF M1, M3, M9
<1>7. Sound(p4, M3)
  BY <1>4, LookIsSound, SoundScriptsJoin DEF Encryption
<1> HIDE DEF p4
<1>8. Sound(p5, M3)
  BY <1>7, LookIsSound, SoundScriptsJoin DEF Network
<1> HIDE DEF p5
<1>9. Sound(p6, M3)
  BY <1>8, LookIsSound, SoundScriptsJoin DEF Egress
<1> HIDE DEF p6
<1>10. Sound(p7, M3)
  BY <1>9, LookIsSound, SoundScriptsJoin DEF Throttling
<1> HIDE DEF p7
<1>11. Sound(p8, M3)
  BY <1>10, LookIsSound, SoundScriptsJoin DEF Alias
<1> HIDE DEF p8
<1>12. Sound(p9, M3 \cup MarksOf("text/plain"))
  BY <1>11, <1>5, BoundaryIsSound, SoundScriptsJoin
<1> HIDE DEF p9
<1>13. \E M: Sound(p10, M)
  BY <1>12, <1>6, BoundaryIsSound, SoundScriptsJoin DEF M9
<1> QED BY <1>13 DEF Script, p1, p2, p3, p4, p5, p6, p7, p8, p9

\* What is looked up and asked for on the way.
Looked == {"commit", "redaction"} \cup Plane

LEMMA ScriptLooks ==
    /\ IsScript(Script)
    /\ \A c \in Looked: \E step \in Contents(Script): step.do = "look" /\ step.control = c
    /\ Ask("GET", "none", {}, 403) \in Contents(Script)
    /\ Ask("POST", "none", {}, 403) \in Contents(Script)
<1> DEFINE p1 == GetHealth \o UserPath
           p2 == p1 \o NegativeRequests
           p3 == p2 \o StrictProbe
           p4 == p3 \o Encryption
           p5 == p4 \o Network
           p6 == p5 \o Egress
           p7 == p6 \o Throttling
           p8 == p7 \o Alias
           p9 == p8 \o Boundary("text/plain", "text", {"required", "closed"})
           p10 == p9 \o Boundary("white space", "json", {"pattern"})
<1>1. IsScript(p1) /\ Contents(p1) = Contents(GetHealth) \cup Contents(UserPath)
  BY GetHealthIsSound, UserPathIsSound, ContentsJoin DEF Sound
<1> HIDE DEF p1
<1>2. IsScript(p2) /\ Contents(p2) = Contents(p1) \cup Contents(NegativeRequests)
  BY <1>1, NegativeRequestsIsSound, ContentsJoin DEF Sound
<1> HIDE DEF p2
<1>3. IsScript(p3) /\ Contents(p3) = Contents(p2) \cup Contents(StrictProbe)
  BY <1>2, StrictProbeIsSound, ContentsJoin DEF Sound
<1> HIDE DEF p3
<1>4. IsScript(p4) /\ Contents(p4) = Contents(p3) \cup Contents(Encryption)
  BY <1>3, LookIsSound, ContentsJoin DEF Sound, Encryption
<1> HIDE DEF p4
<1>5. IsScript(p5) /\ Contents(p5) = Contents(p4) \cup Contents(Network)
  BY <1>4, LookIsSound, ContentsJoin DEF Sound, Network
<1> HIDE DEF p5
<1>6. IsScript(p6) /\ Contents(p6) = Contents(p5) \cup Contents(Egress)
  BY <1>5, LookIsSound, ContentsJoin DEF Sound, Egress
<1> HIDE DEF p6
<1>7. IsScript(p7) /\ Contents(p7) = Contents(p6) \cup Contents(Throttling)
  BY <1>6, LookIsSound, ContentsJoin DEF Sound, Throttling
<1> HIDE DEF p7
<1>8. IsScript(p8) /\ Contents(p8) = Contents(p7) \cup Contents(Alias)
  BY <1>7, LookIsSound, ContentsJoin DEF Sound, Alias
<1> HIDE DEF p8
<1>9. IsScript(p9) /\ Contents(p8) \subseteq Contents(p9)
  BY <1>8, BoundaryIsSound, ContentsJoin DEF Sound
<1> HIDE DEF p9
<1>10. IsScript(p10) /\ Contents(p9) \subseteq Contents(p10)
  BY <1>9, BoundaryIsSound, ContentsJoin DEF Sound
<1> HIDE DEF p10
<1>11. p10 = Script
  BY DEF p1, p2, p3, p4, p5, p6, p7, p8, p9, p10, Script
<1>12. /\ Look("commit", 0) \in Contents(GetHealth)
       /\ Ask("GET", "none", {}, 403) \in Contents(GetHealth)
  <2>1. Len(GetHealth) = 4 /\ GetHealth[2] = Look("commit", 0) /\ GetHealth[3] = Ask("GET", "none", {}, 403)
    BY DEF GetHealth
  <2> QED BY <2>1 DEF Contents
<1>13. Look("redaction", 0) \in Contents(UserPath)
  <2>1. Len(UserPath) = 4 /\ UserPath[4] = Look("redaction", 0)
    BY DEF UserPath
  <2> QED BY <2>1 DEF Contents
<1>14. \A c, calls: Look(c, calls) \in Contents(<<Look(c, calls)>>)
  BY SingleIsScript DEF Contents
<1>15. /\ Look("encryption", 2) \in Contents(Encryption) /\ Look("network", 6) \in Contents(Network)
       /\ Look("egress", 4) \in Contents(Egress) /\ Look("throttling", 3) \in Contents(Throttling)
       /\ Look("alias", 3) \in Contents(Alias)
  BY <1>14 DEF Encryption, Network, Egress, Throttling, Alias
<1>16. Ask("POST", "none", {}, 403) \in Contents(NegativeRequests)
  <2>1. KeysOfPost[1] = Ask("POST", "none", {}, 403)
    BY DEF KeysOfPost
  <2> QED BY <2>1, NegativeRequestsIsSound
<1>17. /\ Look("commit", 0) \in Contents(p10) /\ Look("redaction", 0) \in Contents(p10)
       /\ Look("encryption", 2) \in Contents(p10) /\ Look("network", 6) \in Contents(p10)
       /\ Look("egress", 4) \in Contents(p10) /\ Look("throttling", 3) \in Contents(p10)
       /\ Look("alias", 3) \in Contents(p10)
       /\ Ask("GET", "none", {}, 403) \in Contents(p10)
       /\ Ask("POST", "none", {}, 403) \in Contents(p10)
  BY <1>1, <1>2, <1>3, <1>4, <1>5, <1>6, <1>7, <1>8, <1>9, <1>10, <1>12, <1>13, <1>15, <1>16
<1>18. \A c \in Looked: \E step \in Contents(p10): step.do = "look" /\ step.control = c
  BY <1>17, OtherFields DEF Looked, Plane
<1> QED BY <1>10, <1>11, <1>17, <1>18

(***************************************************************************)
(* Types.                                                                  *)
(***************************************************************************)
Marker == {a.mark : a \in Requests} \ {NoMark}

LEMMA ScriptIsFinite == Len(Script) \in Nat /\ DOMAIN Script = 1..Len(Script)
<1>1. PICK S: Script \in Seq(S)
  BY ScriptLooks DEF IsScript
<1> QED BY <1>1

\* The steps by their place, for pc.
LEMMA StepsByPlace ==
    /\ Contents(Script) = {Script[i] : i \in 1..Len(Script)}
    /\ Requests = {Script[i] : i \in {k \in 1..Len(Script) : Script[k].do = "ask"}}
BY ScriptIsFinite DEF Contents, Requests

LEMMA CapacityIsNat == Capacity \in Nat
BY BucketAssumption DEF Capacity

LEMMA TypeInit == Init => TypeOK
<1> SUFFICES ASSUME Init PROVE TypeOK
  OBVIOUS
<1>1. stream \in [Env -> Seq(Marker)] /\ \A e \in Env: Len(stream[e]) = 0
  BY DEF Init
<1>2. shown \in [Env -> Nat] /\ \A e \in Env: shown[e] <= Len(stream[e])
  BY <1>1 DEF Init
<1>3. 1 <= Len(Script)
  <2>1. PICK step \in Contents(Script): step.do = "look"
    BY ScriptLooks DEF Looked
  <2> QED BY <2>1, ScriptIsFinite, StepsByPlace
<1>4. last \in (SUBSET Env) \ {{}}
  BY EnvAssumption DEF Init
<1>5. tokens \in 0..Capacity
  BY CapacityIsNat DEF Init
<1> QED BY <1>1, <1>2, <1>3, <1>4, <1>5, ScriptIsFinite DEF Init, TypeOK, Marker

LEMMA EarnInBucket ==
    ASSUME tokens \in 0..Capacity, NEW n \in Nat PROVE Earn(n) \in 0..Capacity
BY CapacityIsNat DEF Earn

LEMMA SpendInBucket ==
    ASSUME tokens \in 0..Capacity, NEW a PROVE Spend(a) \in 0..Capacity
BY CapacityIsNat, BucketAssumption DEF Spend, Throttled

\* Where a step of the script leads.
LEMMA Moves ==
    ASSUME TypeOK, verdict = "none",
           Advance \/ \E why \in {"status", "control", "marker", "error"}: Fail(why)
    PROVE  /\ missing' = missing
           /\ pc' \in 1..Len(Script) + 1
           /\ verdict' \in {"none", "passed", "status", "control", "marker", "error"}
           /\ pc' > Len(Script) <=> verdict' = "passed"
           /\ pc \in 1..Len(Script)
<1>1. pc \in 1..Len(Script) + 1 /\ ~(pc > Len(Script)) /\ Len(Script) \in Nat
  BY ScriptIsFinite DEF TypeOK
<1>2. pc \in 1..Len(Script)
  BY <1>1
<1>3. CASE Advance
  <2>1. pc' = pc + 1 /\ verdict' = (IF pc = Len(Script) THEN "passed" ELSE "none") /\ missing' = missing
    BY <1>3 DEF Advance
  <2> QED BY <2>1, <1>1, <1>2
<1>4. CASE \E why \in {"status", "control", "marker", "error"}: Fail(why)
  <2>1. pc' = pc /\ missing' = missing /\ verdict' \in {"status", "control", "marker", "error"}
    BY <1>4 DEF Fail
  <2> QED BY <2>1, <1>1, <1>2
<1> QED BY <1>3, <1>4

LEMMA StepCalls ==
    ASSUME NEW i \in 1..Len(Script), Script[i].do = "look" PROVE Script[i].calls \in Nat
BY ScriptIsSound DEF Sound, WellFormed

LEMMA TypeStep == TypeOK /\ [Next]_vars => TypeOK'
<1> SUFFICES ASSUME TypeOK, [Next]_vars PROVE TypeOK'
  OBVIOUS
<1> DEFINE Moved ==
        /\ missing' = missing /\ pc' \in 1..Len(Script) + 1
        /\ verdict' \in {"none", "passed", "status", "control", "marker", "error"}
        /\ pc' > Len(Script) <=> verdict' = "passed"
<1>1. CASE Request
  <2>1. Moved /\ pc \in 1..Len(Script)
    BY <1>1, Moves DEF Request, Doing
  <2>2. tokens' \in 0..Capacity
    BY <1>1, SpendInBucket DEF Request, TypeOK
  <2>3. CASE UNCHANGED logVars
    BY <2>1, <2>2, <2>3 DEF logVars, TypeOK
  <2>4. ASSUME Invoke(Step.mark) PROVE TypeOK'
    <3>1. PICK e \in IF WarmReuse THEN last ELSE Env:
              /\ stream' = [stream EXCEPT ![e] = IF Step.mark = NoMark THEN @ ELSE Append(@, Step.mark)]
              /\ last' = {e} /\ shown' = shown
      BY <2>4 DEF Invoke
    <3>2. e \in Env
      BY DEF TypeOK
    <3>3. Step \in Requests
      BY <1>1, <2>1, StepsByPlace DEF Request, Doing, Step
    <3>4. Step.mark = NoMark \/ Step.mark \in Marker
      BY <3>3 DEF Marker
    <3>5. stream \in [Env -> Seq(Marker)]
      BY DEF TypeOK, Marker
    <3>6. /\ stream' \in [Env -> Seq(Marker)]
          /\ \A d \in Env: Len(stream[d]) <= Len(stream'[d])
      <4>1. CASE Step.mark = NoMark
        <5>1. stream' = stream
          BY <3>1, <3>5, <4>1
        <5>2. \A d \in Env: Len(stream[d]) \in Nat
          BY <3>5
        <5> QED BY <5>1, <5>2, <3>5
      <4>2. CASE Step.mark # NoMark
        <5>1. stream' = [stream EXCEPT ![e] = Append(@, Step.mark)] /\ Step.mark \in Marker
          BY <3>1, <3>4, <4>2
        <5> QED BY <5>1, <3>2, <3>5
      <4> QED BY <4>1, <4>2
    <3>7. \A d \in Env: shown'[d] <= Len(stream'[d])
      <4>1. \A d \in Env: shown[d] \in Nat /\ shown[d] <= Len(stream[d]) /\ Len(stream[d]) \in Nat
                          /\ Len(stream'[d]) \in Nat
        BY <3>5, <3>6 DEF TypeOK
      <4> QED BY <4>1, <3>6, <3>1
    <3>8. last' \in (SUBSET Env) \ {{}}
      BY <3>1, <3>2
    <3> QED BY <2>1, <2>2, <3>1, <3>6, <3>7, <3>8 DEF TypeOK, Marker
  <2> QED BY <1>1, <2>3, <2>4 DEF Request
<1>2. CASE LookUp
  <2>1. Moved /\ pc \in 1..Len(Script)
    BY <1>2, Moves DEF LookUp, Doing
  <2>2. tokens' \in 0..Capacity
    BY <1>2, <2>1, StepCalls, EarnInBucket DEF LookUp, Doing, Step, TypeOK
  <2> QED BY <1>2, <2>1, <2>2 DEF LookUp, logVars, TypeOK
<1>3. CASE SeeMarker
  <2>1. Moved
    BY <1>3, Moves DEF SeeMarker, Doing
  <2>2. tokens' \in 0..Capacity
    BY <1>3, EarnInBucket DEF SeeMarker, TypeOK
  <2> QED BY <1>3, <2>1, <2>2 DEF SeeMarker, logVars, TypeOK
<1>4. CASE CheckAbsence
  <2>1. Moved
    BY <1>4, Moves DEF CheckAbsence, Doing
  <2>2. tokens' \in 0..Capacity
    BY <1>4, EarnInBucket DEF CheckAbsence, TypeOK
  <2> QED BY <1>4, <2>1, <2>2 DEF CheckAbsence, logVars, TypeOK
<1>5. CASE Sleep
  <2>1. Moved
    BY <1>5, Moves DEF Sleep, Doing
  <2>2. tokens' \in 0..Capacity
    BY <1>5, EarnInBucket DEF Sleep, TypeOK, Interval
  <2> QED BY <1>5, <2>1, <2>2 DEF Sleep, logVars, TypeOK
<1>6. CASE Breaks
  <2>1. Moved
    BY <1>6, Moves DEF Breaks
  <2> QED BY <1>6, <2>1 DEF Breaks, logVars, TypeOK
<1>7. CASE Tick
  <2>1. tokens' \in 0..Capacity
    BY <1>7, CapacityIsNat DEF Tick, TypeOK
  <2> QED BY <1>7, <2>1 DEF Tick, logVars, TypeOK
<1>8. ASSUME NEW e \in Env, Ingest(e) PROVE TypeOK'
  <2>1. stream[e] \in Seq(Marker)
    BY DEF TypeOK, Marker
  <2>2. shown[e] \in Nat /\ Len(stream[e]) \in Nat
    BY <2>1 DEF TypeOK
  <2>3. shown' \in [Env -> Nat] /\ \A d \in Env: shown'[d] <= Len(stream[d])
    BY <1>8, <2>2 DEF Ingest, TypeOK
  <2> QED BY <1>8, <2>3 DEF Ingest, TypeOK
<1>9. CASE UNCHANGED vars
  BY <1>9 DEF vars, logVars, TypeOK
<1> QED BY <1>1, <1>2, <1>3, <1>4, <1>5, <1>6, <1>7, <1>8, <1>9 DEF Next

\* Every variable keeps its type: a stream only ever holds markers of the script,
\* and is never shown beyond its end.
THEOREM TypeCorrect == Spec => []TypeOK
<1>1. Init => TypeOK
  BY TypeInit
<1>2. TypeOK /\ [Next]_vars => TypeOK'
  BY TypeStep
<1> QED BY <1>1, <1>2, PTL DEF Spec

(***************************************************************************)
(* What the steps so far have shown.                                       *)
(***************************************************************************)
ProbesRefused(m) == \A k \in 1..Len(Script): ProbesFor(Script, k, m) => ModelRefuses(Script[k])

Kept(i) ==
    /\ Asks(Script, i) /\ Script[i].code = 400 => ModelRefuses(Script[i]) \/ HandlerRefuses(Script[i])
    /\ Asks(Script, i) /\ Script[i].code = 403 => KeyRefused(Script[i])
    /\ Script[i].do = "look" => Script[i].control \notin missing
    /\ Script[i].do = "wait" => Visible(Script[i].mark)
    /\ Script[i].do = "absent" /\ WarmReuse => ProbesRefused(Script[i].mark)

ShownSoFar == \A i \in 1..(pc - 1): Kept(i)

\* A marked request that reaches Lambda, and is logged when it is sent.
Logged(i) == Marked(Script, i) /\ (Script[i].code = 400 => ~ModelRefuses(Script[i]))

LogIsTrue ==
    \A e \in Env: \A n \in 1..Len(stream[e]):
        \E j \in 1..Len(Script): Logged(j) /\ stream[e][n] = Script[j].mark

\* With warm reuse there is one stream, and it has the markers in their order.
OneStream == \A e \in Env: Len(stream[e]) > 0 => last = {e}

SentIsLogged ==
    \A i \in 1..(pc - 1): Logged(i) =>
        \E e \in Env: \E n \in 1..Len(stream[e]): stream[e][n] = Script[i].mark

LogInOrder ==
    \A e \in Env: \A n \in 1..Len(stream[e]): \A j \in 1..Len(Script):
        Marked(Script, j) /\ stream[e][n] = Script[j].mark =>
            \A i \in 1..(j - 1): Logged(i) =>
                \E m \in 1..(n - 1): stream[e][m] = Script[i].mark

IndInv ==
    /\ TypeOK
    /\ ShownSoFar
    /\ LogIsTrue
    /\ WarmReuse => OneStream /\ SentIsLogged /\ LogInOrder
    /\ BlamedProbeReachedLambda

LEMMA IndInvInit == Init => IndInv
<1> SUFFICES ASSUME Init PROVE IndInv
  OBVIOUS
<1>1. \A e \in Env: Len(stream[e]) = 0
  BY DEF Init
<1>2. pc = 1 /\ verdict = "none"
  BY DEF Init
<1>3. ShownSoFar /\ SentIsLogged
  BY <1>2 DEF ShownSoFar, SentIsLogged
<1>4. LogIsTrue /\ OneStream /\ LogInOrder
  BY <1>1 DEF LogIsTrue, OneStream, LogInOrder
<1>5. BlamedProbeReachedLambda
  BY <1>2 DEF BlamedProbeReachedLambda
<1> QED BY TypeInit, <1>3, <1>4, <1>5 DEF IndInv

\* Each marker is asked once.
LEMMA MarkersAreDistinct ==
    ASSUME NEW i \in 1..Len(Script), NEW j \in 1..Len(Script),
           Marked(Script, i), Marked(Script, j), Script[i].mark = Script[j].mark
    PROVE  i = j
BY ScriptIsSound DEF Sound, WellFormed

\* Every step leaves the log as it is, ingests more of it, or adds the marker of
\* the request being sent.
LEMMA LogStep ==
    ASSUME TypeOK, [Next]_vars
    PROVE  /\ missing' = missing
           /\ \A e \in Env: /\ Len(stream[e]) \in Nat /\ Len(stream'[e]) \in Nat
                            /\ shown[e] \in Nat /\ shown'[e] \in Nat /\ shown[e] <= shown'[e]
                            /\ Len(stream[e]) <= Len(stream'[e])
                            /\ shown[e] <= Len(stream[e])
           /\ \A e \in Env: \A n \in 1..Len(stream[e]): stream'[e][n] = stream[e][n]
           /\ \/ stream' = stream /\ last' = last
              \/ Request /\ Invoke(Step.mark) /\ ReachesLambda(Step)
<1> DEFINE same == stream' = stream /\ last' = last
<1>0. /\ stream \in [Env -> Seq(Marker)] /\ stream' \in [Env -> Seq(Marker)]
      /\ shown \in [Env -> Nat] /\ shown' \in [Env -> Nat]
      /\ \A e \in Env: shown[e] <= Len(stream[e])
  BY TypeStep DEF TypeOK, Marker
<1>1. \A e \in Env: /\ Len(stream[e]) \in Nat /\ Len(stream'[e]) \in Nat
                    /\ shown[e] \in Nat /\ shown'[e] \in Nat
  BY <1>0
<1>2. missing' = missing
  BY DEF Next, Request, LookUp, SeeMarker, CheckAbsence, Sleep, Breaks, Tick, Ingest, Advance, Fail, vars
<1>3. same \/ (Request /\ Invoke(Step.mark) /\ ReachesLambda(Step))
  BY DEF Next, Request, LookUp, SeeMarker, CheckAbsence, Sleep, Breaks, Tick, Ingest, logVars, vars
<1>4. \A e \in Env: shown[e] <= shown'[e]
  <2>1. CASE shown' = shown
    BY <2>1, <1>1
  <2>2. ASSUME NEW d \in Env, Ingest(d) PROVE \A e \in Env: shown[e] <= shown'[e]
    BY <2>2, <1>0, <1>1 DEF Ingest
  <2> QED BY <2>1, <2>2 DEF Next, Request, LookUp, SeeMarker, CheckAbsence, Sleep, Breaks, Tick,
                            Invoke, logVars, vars
<1>5. ASSUME NEW e \in Env
      PROVE  /\ Len(stream[e]) <= Len(stream'[e])
             /\ \A n \in 1..Len(stream[e]): stream'[e][n] = stream[e][n]
  <2>1. CASE same
    BY <2>1, <1>1
  <2>2. CASE Invoke(Step.mark)
    <3>1. PICK d \in IF WarmReuse THEN last ELSE Env:
              stream' = [stream EXCEPT ![d] = IF Step.mark = NoMark THEN @ ELSE Append(@, Step.mark)]
      BY <2>2 DEF Invoke
    <3>2. stream'[e] = stream[e] \/ stream'[e] = Append(stream[e], Step.mark)
      BY <3>1, <1>0
    <3>3. stream[e] \in Seq(Marker) /\ stream'[e] \in Seq(Marker)
      BY <1>0
    <3>4. CASE stream'[e] = Append(stream[e], Step.mark)
      <4>1. /\ Len(Append(stream[e], Step.mark)) = Len(stream[e]) + 1
            /\ \A n \in 1..Len(stream[e]): Append(stream[e], Step.mark)[n] = stream[e][n]
        <5> DEFINE q == stream[e] x == Step.mark S == Marker \cup {x}
        <5>1. q \in Seq(S) /\ x \in S
          BY <3>3
        <5> HIDE DEF q, x, S
        <5>2. Len(Append(q, x)) = Len(q) + 1 /\ \A n \in 1..Len(q): Append(q, x)[n] = q[n]
          BY <5>1
        <5> QED BY <5>2 DEF q, x
      <4> QED BY <4>1, <3>4, <1>1
    <3> QED BY <3>2, <3>4, <1>1
  <2> QED BY <1>3, <2>1, <2>2
<1>6. \A e \in Env: /\ Len(stream[e]) \in Nat /\ Len(stream'[e]) \in Nat
                    /\ shown[e] \in Nat /\ shown'[e] \in Nat /\ shown[e] <= shown'[e]
                    /\ Len(stream[e]) <= Len(stream'[e])
                    /\ shown[e] <= Len(stream[e])
  BY <1>0, <1>1, <1>4, <1>5
<1>7. \A e \in Env: \A n \in 1..Len(stream[e]): stream'[e][n] = stream[e][n]
  BY <1>5
<1> QED BY <1>2, <1>3, <1>6, <1>7

LEMMA VisibleLasts ==
    ASSUME TypeOK, [Next]_vars, NEW m, Visible(m) PROVE Visible(m)'
<1>0. PICK e \in Env: \E n \in 1..shown[e]: stream[e][n] = m
  BY DEF Visible
<1>1. PICK n \in 1..shown[e]: stream[e][n] = m
  BY <1>0
<1>2. n \in 1..Len(stream[e]) /\ n \in 1..shown'[e] /\ stream'[e][n] = stream[e][n]
  BY LogStep
<1> QED BY <1>1, <1>2 DEF Visible

LEMMA KeptLasts ==
    ASSUME TypeOK, [Next]_vars, NEW i \in 1..Len(Script), Kept(i) PROVE Kept(i)'
<1>1. missing' = missing
  BY LogStep
<1>2. Script[i].do = "wait" => Visible(Script[i].mark)'
  BY VisibleLasts DEF Kept
<1> QED BY <1>1, <1>2 DEF Kept, ProbesRefused, ModelRefuses, HandlerRefuses, KeyRefused

\* The barrier's marker is shown, so what was logged before it is.
LEMMA AbsenceShows ==
    ASSUME IndInv, CheckAbsence, ~Visible(Step.mark), WarmReuse
    PROVE  ProbesRefused(Step.mark)
<1>0. pc \in 1..Len(Script) /\ Step = Script[pc] /\ Script[pc].do = "absent"
  BY ScriptIsFinite DEF CheckAbsence, Doing, Step, IndInv, TypeOK
<1>1. PICK i \in 1..(pc - 1), j \in 1..(pc - 1), w \in 1..(pc - 1):
          /\ i < j
          /\ ProbesFor(Script, i, Step.mark) /\ Probing(Step.mark)
          /\ Marked(Script, j) /\ Script[j].code = 200
          /\ Script[w].do = "wait" /\ Script[w].mark = Script[j].mark
  BY <1>0, ScriptIsSound DEF Sound, AbsencesFollowBarriers
<1>2. i \in 1..Len(Script) /\ j \in 1..Len(Script) /\ w \in 1..Len(Script)
  BY <1>0, ScriptIsFinite
<1>3. Visible(Script[j].mark)
  BY <1>1 DEF IndInv, ShownSoFar, Kept
<1>a. PICK e \in Env: \E n \in 1..shown[e]: stream[e][n] = Script[j].mark
  BY <1>3 DEF Visible
<1>4. PICK n \in 1..shown[e]: stream[e][n] = Script[j].mark
  BY <1>a
<1>5. shown[e] \in Nat /\ Len(stream[e]) \in Nat /\ shown[e] <= Len(stream[e])
  BY DEF IndInv, TypeOK
<1>6. n \in 1..Len(stream[e])
  BY <1>5
<1>7. ~Logged(i)
  <2> SUFFICES ASSUME Logged(i) PROVE FALSE
    OBVIOUS
  <2>1. i \in 1..(j - 1)
    BY <1>1
  <2>2. PICK m \in 1..(n - 1): stream[e][m] = Script[i].mark
    BY <1>1, <1>2, <1>4, <1>6, <2>1 DEF IndInv, LogInOrder
  <2>3. m \in 1..shown[e] /\ stream[e][m] = Step.mark
    BY <1>1, <1>5, <2>2 DEF ProbesFor
  <2> QED BY <2>3 DEF Visible
<1>8. ModelRefuses(Script[i])
  BY <1>1, <1>7 DEF Logged, Marked, ProbesFor, Probing
<1>9. ASSUME NEW k \in 1..Len(Script), ProbesFor(Script, k, Step.mark) PROVE k = i
  BY <1>1, <1>2, <1>9, MarkersAreDistinct DEF Marked, ProbesFor, Probing
<1> QED BY <1>8, <1>9 DEF ProbesRefused

LEMMA StepShows ==
    ASSUME IndInv, [Next]_vars, pc' # pc
    PROVE  pc' = pc + 1 /\ pc \in 1..Len(Script) /\ Kept(pc)
<1>0. verdict = "none" => pc \in 1..Len(Script)
  BY ScriptIsFinite DEF IndInv, TypeOK
<1>1. CASE Request
  <2>1. Advance /\ Status(Step) = Step.code /\ Step.do = "ask" /\ verdict = "none"
    BY <1>1 DEF Request, Fail, Doing
  <2>2. Step.code = 400 => ModelRefuses(Step) \/ HandlerRefuses(Step)
    BY <2>1 DEF Status
  <2>3. Step.code = 403 => KeyRefused(Step)
    BY <2>1 DEF Status
  <2> QED BY <2>1, <2>2, <2>3, <1>0 DEF Kept, Step, Advance, Asks
<1>2. CASE LookUp
  <2>1. Advance /\ Step.control \notin missing /\ Step.do = "look" /\ verdict = "none"
    BY <1>2 DEF LookUp, Fail, Doing
  <2> QED BY <2>1, <1>0 DEF Kept, Step, Advance, Asks
<1>3. CASE SeeMarker
  <2>1. Advance /\ Visible(Step.mark) /\ Step.do = "wait" /\ verdict = "none"
    BY <1>3 DEF SeeMarker, Fail, Doing, Awaited
  <2> QED BY <2>1, <1>0 DEF Kept, Step, Advance, Asks
<1>4. CASE CheckAbsence
  <2>1. Advance /\ ~Visible(Step.mark) /\ Step.do = "absent" /\ verdict = "none"
    BY <1>4 DEF CheckAbsence, Fail, Doing, MarkerShown
  <2>2. WarmReuse => ProbesRefused(Step.mark)
    BY <1>4, <2>1, AbsenceShows
  <2> QED BY <2>1, <2>2, <1>0 DEF Kept, Step, Advance, Asks
<1>5. CASE Sleep
  <2>1. Advance /\ Step.do = "pause" /\ verdict = "none"
    BY <1>5 DEF Sleep, Doing
  <2> QED BY <2>1, <1>0 DEF Kept, Step, Advance, Asks
<1> QED BY <1>1, <1>2, <1>3, <1>4, <1>5 DEF Next, Breaks, Tick, Ingest, Fail, vars

LEMMA ShownStep == IndInv /\ [Next]_vars => ShownSoFar'
<1> SUFFICES ASSUME IndInv, [Next]_vars, NEW i \in 1..(pc' - 1) PROVE Kept(i)'
  BY DEF ShownSoFar
<1>1. TypeOK /\ pc \in Nat /\ pc <= Len(Script) + 1 /\ Len(Script) \in Nat
  BY ScriptIsFinite DEF IndInv, TypeOK
<1>2. CASE i \in 1..(pc - 1)
  <2>1. Kept(i) /\ i \in 1..Len(Script)
    BY <1>1, <1>2 DEF IndInv, ShownSoFar
  <2> QED BY <1>1, <2>1, KeptLasts
<1>3. CASE i \notin 1..(pc - 1)
  <2>1. pc' # pc
    BY <1>3
  <2>2. i = pc /\ i \in 1..Len(Script) /\ Kept(i)
    BY <2>1, <1>1, <1>3, StepShows
  <2> QED BY <1>1, <2>2, KeptLasts
<1> QED BY <1>2, <1>3

\* What the request being sent adds to the log.
LEMMA SentMarker ==
    ASSUME TypeOK, Request, Invoke(Step.mark), ReachesLambda(Step)
    PROVE  /\ pc \in 1..Len(Script) /\ Step = Script[pc] /\ Asks(Script, pc)
           /\ Marked(Script, pc) => Logged(pc)
           /\ \E d \in Env:
                /\ WarmReuse => d \in last
                /\ last' = {d}
                /\ ~Marked(Script, pc) => stream' = stream
                /\ \A e \in Env \ {d}: stream'[e] = stream[e]
                /\ Marked(Script, pc) =>
                     /\ Len(stream'[d]) = Len(stream[d]) + 1
                     /\ stream'[d][Len(stream[d]) + 1] = Script[pc].mark
<1>1. pc \in 1..Len(Script) /\ Step = Script[pc] /\ Asks(Script, pc)
  BY ScriptIsFinite DEF Request, Doing, Step, TypeOK, Asks
<1>2. Marked(Script, pc) => Logged(pc)
  BY <1>1 DEF Logged, ReachesLambda
<1>3. PICK d \in IF WarmReuse THEN last ELSE Env:
          /\ stream' = [stream EXCEPT ![d] = IF Step.mark = NoMark THEN @ ELSE Append(@, Step.mark)]
          /\ last' = {d}
  BY DEF Invoke
<1>4. d \in Env /\ (WarmReuse => d \in last)
  BY DEF TypeOK
<1>5. stream \in [Env -> Seq(Marker)]
  BY DEF TypeOK, Marker
<1>6. \A e \in Env \ {d}: stream'[e] = stream[e]
  BY <1>3, <1>4, <1>5
<1>7. ASSUME ~Marked(Script, pc) PROVE stream' = stream
  <2>1. Step.mark = NoMark
    BY <1>1, <1>7 DEF Marked
  <2> QED BY <2>1, <1>3, <1>5
<1>8. ASSUME Marked(Script, pc)
      PROVE  /\ Len(stream'[d]) = Len(stream[d]) + 1
             /\ stream'[d][Len(stream[d]) + 1] = Script[pc].mark
  <2>1. Step.mark # NoMark
    BY <1>1, <1>8 DEF Marked
  <2>2. stream'[d] = Append(stream[d], Step.mark)
    BY <2>1, <1>3, <1>4, <1>5
  <2> DEFINE q == stream[d] x == Step.mark S == Marker \cup {x}
  <2>3. q \in Seq(S) /\ x \in S
    BY <1>4, <1>5
  <2> HIDE DEF q, x, S
  <2>4. Len(Append(q, x)) = Len(q) + 1 /\ Append(q, x)[Len(q) + 1] = x
    BY <2>3
  <2> QED BY <2>2, <2>4, <1>1 DEF q, x
<1> QED BY <1>1, <1>2, <1>3, <1>4, <1>6, <1>7, <1>8

LEMMA LoggedLasts ==
    ASSUME TypeOK, [Next]_vars, NEW i PROVE Logged(i)' <=> Logged(i)
<1>1. missing' = missing
  BY LogStep
<1> QED BY <1>1 DEF Logged, Marked, Asks, ModelRefuses

LEMMA LogTrueStep == IndInv /\ [Next]_vars => LogIsTrue'
<1> SUFFICES ASSUME IndInv, [Next]_vars, NEW e \in Env, NEW n \in 1..Len(stream'[e])
             PROVE  \E j \in 1..Len(Script): Logged(j) /\ stream'[e][n] = Script[j].mark
  BY LoggedLasts DEF LogIsTrue, IndInv
<1>0. TypeOK /\ Len(stream[e]) \in Nat /\ Len(stream'[e]) \in Nat
  BY LogStep DEF IndInv
<1>1. CASE n \in 1..Len(stream[e])
  <2>1. stream'[e][n] = stream[e][n]
    BY <1>0, <1>1, LogStep
  <2> QED BY <2>1, <1>1 DEF IndInv, LogIsTrue
<1>2. CASE n \notin 1..Len(stream[e])
  <2>1. stream' # stream
    BY <1>2
  <2>2. Request /\ Invoke(Step.mark) /\ ReachesLambda(Step)
    BY <2>1, <1>0, LogStep
  <2>3. PICK d \in Env:
          /\ ~Marked(Script, pc) => stream' = stream
          /\ \A c \in Env \ {d}: stream'[c] = stream[c]
          /\ Marked(Script, pc) =>
               /\ Len(stream'[d]) = Len(stream[d]) + 1
               /\ stream'[d][Len(stream[d]) + 1] = Script[pc].mark
    BY <2>2, <1>0, SentMarker
  <2>4. Marked(Script, pc) /\ pc \in 1..Len(Script) /\ Logged(pc)
    BY <2>1, <2>2, <2>3, <1>0, SentMarker
  <2>5. e = d
    BY <2>3, <1>2
  <2>6. n = Len(stream[d]) + 1
    BY <2>3, <2>4, <2>5, <1>0, <1>2
  <2> QED BY <2>3, <2>4, <2>5, <2>6
<1> QED BY <1>1, <1>2

LEMMA OneStreamStep == IndInv /\ WarmReuse /\ [Next]_vars => OneStream'
<1> SUFFICES ASSUME IndInv, WarmReuse, [Next]_vars, NEW e \in Env, Len(stream'[e]) > 0
             PROVE  last' = {e}
  BY DEF OneStream
<1>0. TypeOK /\ Len(stream[e]) \in Nat
  BY LogStep DEF IndInv
<1>1. CASE stream' = stream /\ last' = last
  BY <1>1 DEF IndInv, OneStream
<1>2. CASE Request /\ Invoke(Step.mark) /\ ReachesLambda(Step)
  <2>1. PICK d \in Env: d \in last /\ last' = {d} /\ \A c \in Env \ {d}: stream'[c] = stream[c]
    BY <1>0, <1>2, SentMarker
  <2>2. CASE e = d
    BY <2>1, <2>2
  <2>3. CASE e # d
    <3>1. last = {e}
      BY <2>1, <2>3 DEF IndInv, OneStream
    <3> QED BY <2>1, <3>1
  <2> QED BY <2>2, <2>3
<1> QED BY <1>0, <1>1, <1>2, LogStep

\* A marked request that the script goes on after was sent, if it was to be logged.
LEMMA SentStep == IndInv /\ WarmReuse /\ [Next]_vars => SentIsLogged'
<1> SUFFICES ASSUME IndInv, WarmReuse, [Next]_vars, NEW i \in 1..(pc' - 1), Logged(i)
             PROVE  \E e \in Env: \E n \in 1..Len(stream'[e]): stream'[e][n] = Script[i].mark
  BY LoggedLasts DEF SentIsLogged, IndInv
<1>0. TypeOK /\ pc \in Nat
  BY DEF IndInv, TypeOK
<1>1. CASE i \in 1..(pc - 1)
  <2>1. PICK e \in Env: \E n \in 1..Len(stream[e]): stream[e][n] = Script[i].mark
    BY <1>1 DEF IndInv, SentIsLogged
  <2>2. PICK n \in 1..Len(stream[e]): stream[e][n] = Script[i].mark
    BY <2>1
  <2>3. n \in 1..Len(stream'[e]) /\ stream'[e][n] = stream[e][n]
    BY <1>0, LogStep
  <2> QED BY <2>2, <2>3
<1>2. CASE i \notin 1..(pc - 1)
  <2>1. pc' = pc + 1 /\ pc \in 1..Len(Script) /\ i = pc
    BY <1>0, <1>2, StepShows
  <2>2. Asks(Script, pc) /\ Script[pc].mark # NoMark /\ Script[pc].code \in {200, 400}
    <3>1. Marked(Script, pc)
      BY <2>1 DEF Logged
    <3> QED BY <2>1, <3>1, ScriptIsSound DEF Sound, WellFormed, Marked
  <2>3. Request /\ Advance
    BY <2>1, <2>2, <1>0 DEF Next, Request, LookUp, SeeMarker, CheckAbsence, Sleep, Breaks, Tick, Ingest,
                            Doing, Step, Fail, vars, Asks
  <2>4. Status(Step) = Step.code /\ Step = Script[pc]
    BY <2>1, <2>3, <1>0 DEF Request, Fail, Step
  <2>5. ReachesLambda(Step)
    BY <2>1, <2>2, <2>4 DEF Status, ReachesLambda, Logged
  <2>6. Invoke(Step.mark)
    BY <2>3, <2>5 DEF Request
  <2>7. PICK d \in Env:
          Marked(Script, pc) =>
               /\ Len(stream'[d]) = Len(stream[d]) + 1
               /\ stream'[d][Len(stream[d]) + 1] = Script[pc].mark
    BY <2>3, <2>5, <2>6, <1>0, SentMarker
  <2>8. Len(stream[d]) \in Nat
    BY <1>0, LogStep
  <2>9. Len(stream[d]) + 1 \in 1..Len(stream'[d]) /\ stream'[d][Len(stream[d]) + 1] = Script[i].mark
    BY <2>1, <2>2, <2>7, <2>8 DEF Marked
  <2> QED BY <2>9
<1> QED BY <1>1, <1>2

LEMMA OrderStep == IndInv /\ WarmReuse /\ [Next]_vars => LogInOrder'
<1> SUFFICES ASSUME IndInv, WarmReuse, [Next]_vars PROVE LogInOrder'
  OBVIOUS
<1> SUFFICES ASSUME NEW e \in Env, NEW n \in 1..Len(stream'[e]), NEW j \in 1..Len(Script),
                    Marked(Script, j), stream'[e][n] = Script[j].mark,
                    NEW i \in 1..(j - 1), Logged(i)'
             PROVE  \E m \in 1..(n - 1): stream'[e][m] = Script[i].mark
  BY DEF LogInOrder
<1>l. Logged(i)
  BY LoggedLasts DEF IndInv
<1>0. TypeOK /\ Len(stream[e]) \in Nat /\ Len(stream'[e]) \in Nat
  BY LogStep DEF IndInv
<1>1. CASE n \in 1..Len(stream[e])
  <2>1. stream[e][n] = Script[j].mark
    BY <1>0, <1>1, LogStep
  <2>2. PICK m \in 1..(n - 1): stream[e][m] = Script[i].mark
    BY <1>1, <1>l, <2>1 DEF IndInv, LogInOrder
  <2>3. m \in 1..Len(stream[e])
    BY <1>0, <1>1
  <2>4. stream'[e][m] = stream[e][m]
    BY <2>3, <1>0, LogStep
  <2> QED BY <2>2, <2>4
<1>2. CASE n \notin 1..Len(stream[e])
  <2>1. stream' # stream
    BY <1>2
  <2>2. Request /\ Invoke(Step.mark) /\ ReachesLambda(Step)
    BY <2>1, <1>0, LogStep
  <2>3. PICK d \in Env:
          /\ d \in last
          /\ ~Marked(Script, pc) => stream' = stream
          /\ \A c \in Env \ {d}: stream'[c] = stream[c]
          /\ Marked(Script, pc) =>
               /\ Len(stream'[d]) = Len(stream[d]) + 1
               /\ stream'[d][Len(stream[d]) + 1] = Script[pc].mark
    BY <2>2, <1>0, SentMarker
  <2>4. pc \in 1..Len(Script) /\ Marked(Script, pc)
    BY <2>1, <2>2, <2>3, <1>0, SentMarker
  <2>5. e = d
    BY <2>3, <1>2
  <2>6. n = Len(stream[d]) + 1
    BY <2>3, <2>4, <2>5, <1>0, <1>2
  <2>7. j = pc
    BY <2>3, <2>4, <2>5, <2>6, MarkersAreDistinct
  <2>8. PICK c \in Env: \E m \in 1..Len(stream[c]): stream[c][m] = Script[i].mark
    BY <1>l, <2>7 DEF IndInv, SentIsLogged
  <2>9. PICK m \in 1..Len(stream[c]): stream[c][m] = Script[i].mark
    BY <2>8
  <2>10. Len(stream[c]) \in Nat /\ Len(stream[c]) > 0
    BY <2>9, <1>0, LogStep
  <2>11. c = e
    BY <2>3, <2>5, <2>10 DEF IndInv, OneStream
  <2>12. m \in 1..(n - 1)
    BY <2>5, <2>6, <2>10, <2>11
  <2>13. stream'[e][m] = stream[e][m]
    BY <2>11, <1>0, LogStep
  <2> QED BY <2>9, <2>11, <2>12, <2>13
<1> QED BY <1>1, <1>2

\* Only a request that reaches Lambda leaves a marker.
LEMMA BlamedStep == IndInv /\ [Next]_vars => BlamedProbeReachedLambda'
<1> SUFFICES ASSUME IndInv, [Next]_vars, verdict' = "marker"
             PROVE  \E a \in Probes: a.mark = Step'.mark /\ ~ModelRefuses(a)'
  BY DEF BlamedProbeReachedLambda, Probes, Requests
<1>0. TypeOK /\ missing' = missing
  BY LogStep DEF IndInv
<1>1. \A a: ModelRefuses(a)' <=> ModelRefuses(a)
  BY <1>0 DEF ModelRefuses
<1>2. CASE verdict = "marker"
  <2>1. pc' = pc
    BY <1>2 DEF Next, Request, LookUp, SeeMarker, CheckAbsence, Sleep, Breaks, Tick, Ingest, Doing, vars
  <2> QED BY <1>1, <1>2, <2>1 DEF IndInv, BlamedProbeReachedLambda, Step
<1>3. CASE verdict # "marker"
  <2>1. CheckAbsence /\ Visible(Step.mark) /\ pc' = pc
    BY <1>3 DEF Next, Request, LookUp, SeeMarker, CheckAbsence, Sleep, Breaks, Tick, Ingest,
                Advance, Fail, MarkerShown, vars
  <2>2. pc \in 1..Len(Script) /\ Step = Script[pc] /\ Script[pc].do = "absent"
    BY <2>1, ScriptIsFinite DEF CheckAbsence, Doing, Step, IndInv, TypeOK
  <2>3. PICK i \in 1..(pc - 1): ProbesFor(Script, i, Step.mark) /\ Probing(Step.mark)
    BY <2>2, ScriptIsSound DEF Sound, AbsencesFollowBarriers
  <2>4. i \in 1..Len(Script)
    BY <2>2, ScriptIsFinite
  <2>5. PICK e \in Env: \E n \in 1..shown[e]: stream[e][n] = Step.mark
    BY <2>1 DEF Visible
  <2>6. PICK n \in 1..shown[e]: stream[e][n] = Step.mark
    BY <2>5
  <2>7. n \in 1..Len(stream[e])
    BY <1>0, LogStep
  <2>8. PICK j \in 1..Len(Script): Logged(j) /\ Script[j].mark = Step.mark
    BY <2>6, <2>7 DEF IndInv, LogIsTrue
  <2>9. Marked(Script, j) /\ Marked(Script, i)
    BY <2>3, <2>8 DEF Logged, Marked, ProbesFor, Probing
  <2>10. i = j
    BY <2>3, <2>4, <2>8, <2>9, MarkersAreDistinct DEF ProbesFor
  <2>11. ~ModelRefuses(Script[i])
    BY <2>3, <2>8, <2>10 DEF Logged, ProbesFor
  <2>12. Script[i] \in Probes
    BY <2>3, <2>4, StepsByPlace DEF Probes, ProbesFor, Probing, Asks
  <2>13. Script[i].mark = Step'.mark
    BY <2>1, <2>3 DEF ProbesFor, Step
  <2> QED BY <1>1, <2>11, <2>12, <2>13
<1> QED BY <1>2, <1>3

\* What the steps so far have shown, and what the log says of the requests, are
\* kept by every step.
THEOREM Invariance == Spec => []IndInv
<1>1. Init => IndInv
  BY IndInvInit
<1>2. IndInv /\ [Next]_vars => IndInv'
  <2> SUFFICES ASSUME IndInv, [Next]_vars PROVE IndInv'
    OBVIOUS
  <2>1. TypeOK' /\ ShownSoFar' /\ LogIsTrue' /\ BlamedProbeReachedLambda'
    BY TypeStep, ShownStep, LogTrueStep, BlamedStep DEF IndInv
  <2>2. WarmReuse => OneStream' /\ SentIsLogged' /\ LogInOrder'
    BY OneStreamStep, SentStep, OrderStep
  <2> QED BY <2>1, <2>2 DEF IndInv
<1> QED BY <1>1, <1>2, PTL DEF Spec

\* A verification passes when every place of the script is behind it.
LEMMA PassedIsThrough ==
    ASSUME IndInv, verdict = "passed", NEW i \in 1..Len(Script) PROVE Kept(i)
<1>1. pc = Len(Script) + 1
  BY ScriptIsFinite DEF IndInv, TypeOK
<1> QED BY <1>1, ScriptIsFinite DEF IndInv, ShownSoFar

\* scripts/verify_gateway_boundary.py, line 2: if invocations made one after the
\* other land in one environment, a verification that passes has shown that the
\* gateway itself refuses every probe, however late the log streams are ingested.
THEOREM PassedIsEnforced == ASSUME WarmReuse PROVE Spec => []PassedMeansEnforced
<1>1. IndInv => PassedMeansEnforced
  <2> SUFFICES ASSUME IndInv, verdict = "passed", NEW a \in Probes PROVE ModelRefuses(a)
    BY DEF PassedMeansEnforced
  <2>1. PICK i \in 1..Len(Script): Script[i] = a /\ Asks(Script, i)
    BY StepsByPlace DEF Probes, Asks
  <2>2. a.code = 400 /\ a.mark # NoMark
    <3>1. a.code = 400 /\ a.mark[2] = "probe"
      BY DEF Probes
    <3>2. NoMark[2] = ""
      BY DEF NoMark
    <3> QED BY <3>1, <3>2
  <2>3. PICK x \in 1..Len(Script): Script[x].do = "absent" /\ Script[x].mark = a.mark
    BY <2>1, <2>2, ScriptIsSound DEF Sound, ProbesAreChecked, Marked
  <2>4. ProbesRefused(a.mark)
    BY <2>3, PassedIsThrough DEF Kept
  <2> QED BY <2>1, <2>2, <2>4 DEF ProbesRefused, ProbesFor
<1> QED BY <1>1, Invariance, PTL

\* The requests of scripts/verify_deployment.py that expect 400 show that some
\* layer refuses the body, those without a key that both methods require one, and
\* the look-ups that their controls are there, whatever else is missing.
THEOREM PassedIsRefused == Spec => []PassedMeansRefused
<1>1. IndInv => PassedMeansRefused
  <2> SUFFICES ASSUME IndInv, verdict = "passed"
               PROVE  /\ \A a \in Requests: a.code = 400 => ModelRefuses(a) \/ HandlerRefuses(a)
                      /\ missing \cap ({"GET key", "POST key", "commit", "redaction"} \cup Plane) = {}
    BY DEF PassedMeansRefused
  <2>1. ASSUME NEW a \in Requests, a.code = 400 PROVE ModelRefuses(a) \/ HandlerRefuses(a)
    <3>1. PICK i \in 1..Len(Script): Script[i] = a /\ Asks(Script, i)
      BY StepsByPlace DEF Asks
    <3> QED BY <3>1, <2>1, PassedIsThrough DEF Kept
  <2>2. ASSUME NEW c \in Looked PROVE c \notin missing
    <3>1. PICK i \in 1..Len(Script): Script[i].do = "look" /\ Script[i].control = c
      BY ScriptLooks, StepsByPlace
    <3> QED BY <3>1, PassedIsThrough DEF Kept
  <2>3. ASSUME NEW method \in {"GET", "POST"}, Ask(method, "none", {}, 403) \in Contents(Script)
        PROVE  KeyRefused(Ask(method, "none", {}, 403))
    <3>1. PICK i \in 1..Len(Script): Script[i] = Ask(method, "none", {}, 403)
      BY <2>3, StepsByPlace
    <3>2. Asks(Script, i) /\ Script[i].code = 403
      BY <3>1, AskFields DEF Asks
    <3> QED BY <3>1, <3>2, PassedIsThrough DEF Kept
  <2>4. "GET key" \notin missing
    <3>1. KeyRefused(Ask("GET", "none", {}, 403))
      BY <2>3, ScriptLooks
    <3>2. Ask("GET", "none", {}, 403).method = "GET"
      BY AskFields
    <3> QED BY <3>1, <3>2 DEF KeyRefused
  <2>5. "POST key" \notin missing
    <3>1. KeyRefused(Ask("POST", "none", {}, 403))
      BY <2>3, ScriptLooks
    <3>2. Ask("POST", "none", {}, 403).method = "POST"
      BY AskFields
    <3> QED BY <3>1, <3>2 DEF KeyRefused
  <2> QED BY <2>1, <2>2, <2>4, <2>5 DEF Looked
<1> QED BY <1>1, Invariance, PTL

\* A release that fails on a probe's marker did let that probe through, in
\* whatever environment it landed and however late its marker was shown.
THEOREM BlameIsDeserved == Spec => []BlamedProbeReachedLambda
<1>1. IndInv => BlamedProbeReachedLambda
  BY DEF IndInv
<1> QED BY <1>1, Invariance, PTL

(***************************************************************************)
(* The usage plan's tokens, step by step of the script.                    *)
(***************************************************************************)
\* A bucket of three tokens, and a pause that earns one.  staging.tfvars has burst 4
\* and 2 per second, prod.tfvars burst 50 and 25 per second.
FrequentTokens == Burst >= 3 /\ TokenTicks <= Interval

\* What a stack that lacks nothing answers as the script expects.
Answerable(a) ==
    \/ a.key = "valid" /\ a.code = 200 /\ a.breaks = {}
    \/ a.key = "valid" /\ a.code = 400 /\ a.breaks # {} /\ a.method = "POST"
    \/ a.key # "valid" /\ a.code = 403

\* A step that starts with n ticks' worth of tokens is not throttled, and ends
\* with m.
Covers(x, n, m) ==
    \/ /\ x.do = "ask" /\ Answerable(x)
       /\ x.key = "valid" => n >= TokenTicks /\ m <= n - TokenTicks
       /\ x.key # "valid" => m <= n
    \/ x.do = "look" /\ x.calls \in Nat /\ m <= n + x.calls
    \/ x.do \in {"wait", "absent"} /\ m <= n + 1
    \/ x.do = "pause" /\ m <= n + Interval

Account(s, f) ==
    /\ f \in [1..(Len(s) + 1) -> 0..Capacity]
    /\ \A i \in 1..Len(s): Covers(s[i], f[i], f[i + 1])

Affords(s, n, m) ==
    IsScript(s) /\ \E f: Account(s, f) /\ f[1] = n /\ f[Len(s) + 1] = m

\* Accounts of two scripts, one after the other.
LEMMA AccountsJoin ==
    ASSUME NEW s, NEW t, NEW n, NEW m, NEW k, Affords(s, n, m), Affords(t, m, k)
    PROVE  Affords(s \o t, n, k)
<1> DEFINE st == s \o t
<1>1. /\ IsScript(st)
      /\ Len(s) \in Nat /\ Len(t) \in Nat /\ Len(st) = Len(s) + Len(t)
      /\ \A i \in 1..Len(s): i \in 1..Len(st) /\ st[i] = s[i]
      /\ \A i \in 1..Len(t): Len(s) + i \in 1..Len(st) /\ st[Len(s) + i] = t[i]
      /\ \A i \in 1..Len(st): i \in 1..Len(s) \/ \E j \in 1..Len(t): i = Len(s) + j
  BY Joined DEF Affords
<1> HIDE DEF st
<1>2. PICK f: Account(s, f) /\ f[1] = n /\ f[Len(s) + 1] = m
  BY DEF Affords
<1>3. PICK g: Account(t, g) /\ g[1] = m /\ g[Len(t) + 1] = k
  BY DEF Affords
<1> DEFINE h == [i \in 1..(Len(st) + 1) |-> IF i <= Len(s) THEN f[i] ELSE g[i - Len(s)]]
<1>4. h \in [1..(Len(st) + 1) -> 0..Capacity]
  <2> SUFFICES ASSUME NEW i \in 1..(Len(st) + 1)
               PROVE  (IF i <= Len(s) THEN f[i] ELSE g[i - Len(s)]) \in 0..Capacity
    OBVIOUS
  <2>1. CASE i <= Len(s)
    <3>1. i \in 1..(Len(s) + 1)
      BY <1>1, <2>1
    <3> QED BY <3>1, <2>1, <1>2 DEF Account
  <2>2. CASE ~(i <= Len(s))
    <3>1. i - Len(s) \in 1..(Len(t) + 1)
      BY <1>1, <2>2
    <3> QED BY <3>1, <2>2, <1>3 DEF Account
  <2> QED BY <2>1, <2>2
<1>5. \A i \in 1..(Len(s) + 1): h[i] = f[i]
  <2> SUFFICES ASSUME NEW i \in 1..(Len(s) + 1) PROVE h[i] = f[i]
    OBVIOUS
  <2>1. i \in 1..(Len(st) + 1)
    BY <1>1
  <2>2. CASE i <= Len(s)
    BY <2>1, <2>2
  <2>3. CASE ~(i <= Len(s))
    <3>1. i = Len(s) + 1 /\ i - Len(s) = 1
      BY <1>1, <2>3
    <3> QED BY <2>1, <2>3, <3>1, <1>2, <1>3
  <2> QED BY <2>2, <2>3
<1>6. \A i \in 1..(Len(t) + 1): h[Len(s) + i] = g[i]
  <2> SUFFICES ASSUME NEW i \in 1..(Len(t) + 1) PROVE h[Len(s) + i] = g[i]
    OBVIOUS
  <2>1. Len(s) + i \in 1..(Len(st) + 1) /\ ~(Len(s) + i <= Len(s)) /\ (Len(s) + i) - Len(s) = i
    BY <1>1
  <2> QED BY <2>1
<1> HIDE DEF h
<1>7. ASSUME NEW i \in 1..Len(st) PROVE Covers(st[i], h[i], h[i + 1])
  <2>1. CASE i \in 1..Len(s)
    <3>1. i \in 1..(Len(s) + 1) /\ i + 1 \in 1..(Len(s) + 1)
      BY <2>1, <1>1
    <3>2. st[i] = s[i] /\ h[i] = f[i] /\ h[i + 1] = f[i + 1]
      BY <2>1, <3>1, <1>1, <1>5
    <3>3. Covers(s[i], f[i], f[i + 1])
      BY <2>1, <1>2 DEF Account
    <3> QED BY <3>2, <3>3
  <2>2. ASSUME NEW j \in 1..Len(t), i = Len(s) + j PROVE Covers(st[i], h[i], h[i + 1])
    <3>1. j \in 1..(Len(t) + 1) /\ j + 1 \in 1..(Len(t) + 1) /\ i + 1 = Len(s) + (j + 1)
      BY <2>2, <1>1
    <3>2. st[i] = t[j] /\ h[i] = g[j] /\ h[i + 1] = g[j + 1]
      BY <2>2, <3>1, <1>1, <1>6
    <3>3. Covers(t[j], g[j], g[j + 1])
      BY <1>3 DEF Account
    <3> QED BY <3>2, <3>3
  <2> QED BY <1>1, <2>1, <2>2
<1>8. h[1] = n
  <2>1. 1 \in 1..(Len(s) + 1)
    BY <1>1
  <2> QED BY <2>1, <1>2, <1>5
<1>9. h[Len(st) + 1] = k
  <2>1. Len(t) + 1 \in 1..(Len(t) + 1) /\ Len(st) + 1 = Len(s) + (Len(t) + 1)
    BY <1>1
  <2> QED BY <2>1, <1>3, <1>6
<1>10. Account(st, h)
  BY <1>4, <1>7 DEF Account
<1> QED BY <1>1, <1>8, <1>9, <1>10 DEF Affords, st

LEMMA CapacityOfThree ==
    ASSUME FrequentTokens
    PROVE  /\ TokenTicks \in 1..6 /\ Capacity \in Nat /\ 3 * TokenTicks <= Capacity
<1>1. TokenTicks \in 1..6
  BY BucketAssumption DEF FrequentTokens, Interval
<1>2. Burst \in Nat /\ Burst - 3 \in Nat
  BY BucketAssumption DEF FrequentTokens
<1> DEFINE rest == Burst - 3
<1> HIDE DEF rest
<1>3. rest \in Nat /\ Burst = 3 + rest
  BY <1>2 DEF rest
<1>4. (3 + rest) * TokenTicks = 3 * TokenTicks + rest * TokenTicks
  BY <1>1, <1>3, SMT
<1>5. rest * TokenTicks \in Nat
  BY <1>1, <1>3, SMT
<1> QED BY <1>1, <1>3, <1>4, <1>5, CapacityIsNat DEF Capacity

\* One step.
LEMMA StepAffords ==
    ASSUME NEW x, NEW n \in 0..Capacity, NEW m \in 0..Capacity, Covers(x, n, m)
    PROVE  Affords(<<x>>, n, m)
<1> DEFINE f == [i \in 1..2 |-> IF i = 1 THEN n ELSE m]
<1>1. IsScript(<<x>>) /\ Len(<<x>>) = 1 /\ <<x>>[1] = x
  BY SingleIsScript
<1>2. f \in [1..2 -> 0..Capacity] /\ f[1] = n /\ f[2] = m
  OBVIOUS
<1> HIDE DEF f
<1>3. Account(<<x>>, f)
  BY <1>1, <1>2 DEF Account
<1> QED BY <1>1, <1>2, <1>3 DEF Affords

\* A few steps.
LEMMA StepsAfford ==
    ASSUME NEW s, NEW L \in {2, 3, 4}, IsScript(s), Len(s) = L,
           NEW n1 \in 0..Capacity, NEW n2 \in 0..Capacity, NEW n3 \in 0..Capacity,
           NEW n4 \in 0..Capacity, NEW n5 \in 0..Capacity,
           Covers(s[1], n1, n2), Covers(s[2], n2, n3),
           L > 2 => Covers(s[3], n3, n4),
           L > 3 => Covers(s[4], n4, n5)
    PROVE  /\ L = 2 => Affords(s, n1, n3)
           /\ L = 3 => Affords(s, n1, n4)
           /\ L = 4 => Affords(s, n1, n5)
<1> DEFINE f == [i \in 1..(L + 1) |->
                    IF i = 1 THEN n1 ELSE IF i = 2 THEN n2 ELSE IF i = 3 THEN n3
                    ELSE IF i = 4 THEN n4 ELSE n5]
<1>a. /\ 1 \in 1..(L + 1) /\ 2 \in 1..(L + 1) /\ 3 \in 1..(L + 1)
      /\ L > 2 => 4 \in 1..(L + 1)
      /\ L > 3 => 5 \in 1..(L + 1)
  OBVIOUS
<1>1. /\ f \in [1..(L + 1) -> 0..Capacity]
      /\ f[1] = n1 /\ f[2] = n2 /\ f[3] = n3
      /\ L > 2 => f[4] = n4
      /\ L > 3 => f[5] = n5
  BY <1>a
<1> HIDE DEF f
<1>2. ASSUME NEW i \in 1..L PROVE Covers(s[i], f[i], f[i + 1])
  <2>1. CASE i = 1
    <3>1. i + 1 = 2
      BY <2>1
    <3> QED BY <2>1, <3>1, <1>1
  <2>2. CASE i = 2
    <3>1. i + 1 = 3
      BY <2>2
    <3> QED BY <2>2, <3>1, <1>1
  <2>3. CASE i = 3
    <3>1. i + 1 = 4 /\ L > 2
      BY <2>3
    <3> QED BY <2>3, <3>1, <1>1
  <2>4. CASE i = 4
    <3>1. i + 1 = 5 /\ L > 2 /\ L > 3
      BY <2>4
    <3> QED BY <2>4, <3>1, <1>1
  <2>5. i \in {1, 2, 3, 4}
    OBVIOUS
  <2> QED BY <2>1, <2>2, <2>3, <2>4, <2>5
<1>3. Account(s, f)
  BY <1>1, <1>2 DEF Account
<1>4. /\ L = 2 => f[L + 1] = n3
      /\ L = 3 => f[L + 1] = n4
      /\ L = 4 => f[L + 1] = n5
  <2>1. CASE L = 2
    <3>1. L + 1 = 3
      BY <2>1
    <3> QED BY <2>1, <3>1, <1>1
  <2>2. CASE L = 3
    <3>1. L + 1 = 4 /\ L > 2
      BY <2>2
    <3> QED BY <2>2, <3>1, <1>1
  <2>3. CASE L = 4
    <3>1. L + 1 = 5 /\ L > 3
      BY <2>3
    <3> QED BY <2>3, <3>1, <1>1
  <2> QED BY <2>1, <2>2, <2>3
<1> QED BY <1>1, <1>3, <1>4 DEF Affords

\* With each request that spends, one token fewer; the pauses give it back.
LEMMA BlocksAfford ==
    ASSUME FrequentTokens
    PROVE  LET T == TokenTicks
           IN /\ Affords(GetHealth, 3 * T, 2 * T)
              /\ Affords(UserPath, 2 * T, T)
              /\ \A breaks: breaks # {} => Affords(Negative(breaks), T, T)
              /\ Affords(KeysOfPost, T, T)
              /\ \A m: Affords(Barrier(m), T, 0)
<1>0. TokenTicks \in 1..6 /\ Capacity \in Nat /\ 3 * TokenTicks <= Capacity
  BY CapacityOfThree
<1> DEFINE T == TokenTicks
           T2 == 2 * TokenTicks
           T3 == 3 * TokenTicks
<1>1. /\ 0 \in 0..Capacity /\ T \in 0..Capacity /\ T2 \in 0..Capacity /\ T3 \in 0..Capacity
      /\ T3 >= TokenTicks /\ T2 <= T3 - TokenTicks
      /\ T2 >= TokenTicks /\ T <= T2 - TokenTicks
      /\ T >= TokenTicks /\ 0 <= T - TokenTicks
      /\ \A n \in 0..Capacity: n <= n + 1 /\ n <= n + 0
      /\ T <= T + 1 /\ T2 <= T2 + 0 /\ T <= T + 0 /\ 0 <= 0 + 1 /\ T <= 0 + Interval
      /\ T2 <= T2 /\ T <= T
  BY <1>0 DEF Interval
<1> HIDE DEF T, T2, T3
<1>2. \A method: LET a == Ask(method, "valid", {}, 200)
                 IN Covers(a, T3, T2) /\ Covers(a, T2, T) /\ Covers(a, T, 0)
  BY <1>1, AskFields DEF Covers, Answerable
<1>3. \A breaks: breaks # {} => Covers(Ask("POST", "valid", breaks, 400), T, 0)
  BY <1>1, AskFields DEF Covers, Answerable
<1>4. \A method: \A key \in {"none", "wrong"}:
          LET a == Ask(method, key, {}, 403) IN Covers(a, T2, T2) /\ Covers(a, T, T)
  BY <1>1, AskFields DEF Covers, Answerable
<1>5. \A method, m: LET a == [Ask(method, "valid", {}, 200) EXCEPT !.mark = m]
                    IN Covers(a, T2, T) /\ Covers(a, T, 0)
  BY <1>1 DEF Covers, Answerable, Ask
<1>6. /\ \A c: Covers(Look(c, 0), T2, T2) /\ Covers(Look(c, 0), T, T) /\ Covers(Look(c, 1), T, T)
      /\ \A m: Covers(Wait(m), T, T) /\ Covers(Wait(m), 0, 0) /\ Covers(Absent(m), 0, 0)
      /\ Covers(Pause, 0, T)
  BY <1>1, OtherFields DEF Covers
<1>7. Affords(GetHealth, T3, T2)
  <2>1. /\ IsScript(GetHealth) /\ Len(GetHealth) = 4
        /\ GetHealth[1] = Ask("GET", "valid", {}, 200) /\ GetHealth[2] = Look("commit", 0)
        /\ GetHealth[3] = Ask("GET", "none", {}, 403) /\ GetHealth[4] = Ask("GET", "wrong", {}, 403)
    BY GetHealthIsSound DEF Sound, GetHealth
  <2>2. /\ Covers(GetHealth[1], T3, T2) /\ Covers(GetHealth[2], T2, T2)
        /\ Covers(GetHealth[3], T2, T2) /\ Covers(GetHealth[4], T2, T2)
    BY <2>1, <1>2, <1>4, <1>6
  <2> QED BY <2>1, <2>2, <1>1, StepsAfford
<1>8. Affords(UserPath, T2, T)
  <2>1. /\ IsScript(UserPath) /\ Len(UserPath) = 4
        /\ UserPath[1] = [Ask("POST", "valid", {}, 200) EXCEPT !.mark = <<"valid", "probe">>]
        /\ UserPath[2] = Look("commit", 1) /\ UserPath[3] = Wait(<<"valid", "probe">>)
        /\ UserPath[4] = Look("redaction", 0)
    BY UserPathIsSound DEF Sound, UserPath
  <2>2. /\ Covers(UserPath[1], T2, T) /\ Covers(UserPath[2], T, T)
        /\ Covers(UserPath[3], T, T) /\ Covers(UserPath[4], T, T)
    BY <2>1, <1>5, <1>6
  <2> QED BY <2>1, <2>2, <1>1, StepsAfford
<1>9. ASSUME NEW breaks, breaks # {} PROVE Affords(Negative(breaks), T, T)
  <2>1. /\ IsScript(Negative(breaks)) /\ Len(Negative(breaks)) = 2
        /\ Negative(breaks)[1] = Ask("POST", "valid", breaks, 400) /\ Negative(breaks)[2] = Pause
    BY NegativeIsSound DEF Sound, Negative
  <2>2. Covers(Negative(breaks)[1], T, 0) /\ Covers(Negative(breaks)[2], 0, T)
    BY <2>1, <1>3, <1>6, <1>9
  <2> QED BY <2>1, <2>2, <1>1, StepsAfford
<1>10. Affords(KeysOfPost, T, T)
  <2>1. /\ IsScript(KeysOfPost) /\ Len(KeysOfPost) = 2
        /\ KeysOfPost[1] = Ask("POST", "none", {}, 403) /\ KeysOfPost[2] = Ask("POST", "wrong", {}, 403)
    BY KeysOfPostIsSound DEF Sound, KeysOfPost
  <2>2. Covers(KeysOfPost[1], T, T) /\ Covers(KeysOfPost[2], T, T)
    BY <2>1, <1>4
  <2> QED BY <2>1, <2>2, <1>1, StepsAfford
<1>11. ASSUME NEW m PROVE Affords(Barrier(m), T, 0)
  <2>1. /\ IsScript(Barrier(m)) /\ Len(Barrier(m)) = 3
        /\ Barrier(m)[1] = [Ask("GET", "valid", {}, 200) EXCEPT !.mark = <<m, "barrier">>]
        /\ Barrier(m)[2] = Wait(<<m, "barrier">>) /\ Barrier(m)[3] = Absent(<<m, "probe">>)
    BY BarrierIsScript DEF Barrier
  <2>2. Covers(Barrier(m)[1], T, 0) /\ Covers(Barrier(m)[2], 0, 0) /\ Covers(Barrier(m)[3], 0, 0)
    BY <2>1, <1>5, <1>6
  <2> QED BY <2>1, <2>2, <1>1, StepsAfford
<1> QED BY <1>7, <1>8, <1>9, <1>10, <1>11 DEF T, T2, T3

LEMMA NegativeRequestsAfford ==
    ASSUME FrequentTokens PROVE Affords(NegativeRequests, TokenTicks, TokenTicks)
<1> DEFINE T == TokenTicks
           five == Negative({"required"}) \o Negative({"string"}) \o Negative({"JSON"})
                   \o Negative({"length"}) \o Negative({"closed"})
<1>1. /\ \A breaks: breaks # {} => Affords(Negative(breaks), T, T)
      /\ Affords(KeysOfPost, T, T)
  BY BlocksAfford
<1>2. Affords(Negative({"required"}) \o Negative({"string"}), T, T)
  BY <1>1, AccountsJoin
<1>3. Affords(Negative({"required"}) \o Negative({"string"}) \o Negative({"JSON"}), T, T)
  BY <1>1, <1>2, AccountsJoin
<1>4. Affords(Negative({"required"}) \o Negative({"string"}) \o Negative({"JSON"})
              \o Negative({"length"}), T, T)
  BY <1>1, <1>3, AccountsJoin
<1>5. Affords(five, T, T)
  BY <1>1, <1>4, AccountsJoin
<1> HIDE DEF five
<1>6. Affords(five \o KeysOfPost, T, T)
  BY <1>1, <1>5, AccountsJoin
<1> QED BY <1>6 DEF five, NegativeRequests, KeysOfPost

\* The probe of the strict model spends a token, the barrier the one that the pause
\* earned.
LEMMA StrictProbeAffords ==
    ASSUME FrequentTokens PROVE Affords(StrictProbe, TokenTicks, 0)
<1> DEFINE T == TokenTicks
           probe == Probe("strict", "json", {"required", "closed"})
           absent == Absent(<<"strict", "probe">>)
<1>0. T \in 1..6 /\ Capacity \in Nat /\ 3 * T <= Capacity
  BY CapacityOfThree
<1>1. 0 \in 0..Capacity /\ T \in 0..Capacity
  BY <1>0
<1>2. Covers(probe, T, 0) /\ Covers(Pause, 0, T) /\ Covers(absent, 0, 0)
  BY <1>0, OtherFields DEF Covers, Answerable, Probe, Ask, Interval
<1>3. /\ IsScript(<<probe, Pause>>) /\ Len(<<probe, Pause>>) = 2
      /\ <<probe, Pause>>[1] = probe /\ <<probe, Pause>>[2] = Pause
  <2>1. <<probe, Pause>> \in Seq({probe, Pause})
    OBVIOUS
  <2> QED BY <2>1 DEF IsScript
<1>5. Affords(Barrier("strict"), T, 0)
  BY BlocksAfford
<1>d. StrictProbe = (<<probe, Pause>> \o Barrier("strict")) \o <<absent>>
  BY DEF StrictProbe
<1> HIDE DEF probe, absent, T
<1>4. Affords(<<probe, Pause>>, T, T)
  BY <1>1, <1>2, <1>3, StepsAfford
<1>6. Affords(<<absent>>, 0, 0)
  BY <1>1, <1>2, StepAffords
<1>7. Affords(<<probe, Pause>> \o Barrier("strict"), T, 0)
  BY <1>4, <1>5, AccountsJoin
<1>8. Affords(StrictProbe, T, 0)
  BY <1>6, <1>7, <1>d, AccountsJoin
<1> QED BY <1>8 DEF T

\* The five look-ups together earn three tokens, if the bucket has room.
Earned(n) == IF n <= 3 * TokenTicks THEN n ELSE 3 * TokenTicks

LEMMA LooksAfford ==
    ASSUME FrequentTokens, NEW c, NEW n \in Nat, NEW calls \in Nat
    PROVE  Affords(<<Look(c, calls)>>, Earned(n), Earned(n + calls))
<1>0. TokenTicks \in 1..6 /\ Capacity \in Nat /\ 3 * TokenTicks <= Capacity
  BY CapacityOfThree
<1>1. Earned(n) \in 0..Capacity /\ Earned(n + calls) \in 0..Capacity
  BY <1>0 DEF Earned
<1>2. Earned(n + calls) <= Earned(n) + calls
  BY <1>0 DEF Earned
<1>3. Covers(Look(c, calls), Earned(n), Earned(n + calls))
  BY <1>2, OtherFields DEF Covers
<1> QED BY <1>1, <1>3, StepAffords

\* A probe and its barrier back to back, from two tokens: what comes after them earns
\* the next of the two back that the next boundary needs.
LEMMA BoundaryAffords ==
    ASSUME FrequentTokens, NEW a \in {2 * TokenTicks, 3 * TokenTicks},
           NEW m, NEW type, NEW breaks, breaks # {}
    PROVE  Affords(Boundary(m, type, breaks), a, a - TokenTicks)
<1> DEFINE T == TokenTicks
           b == a - T
           c == b - T
           probe == Probe(m, type, breaks)
           barrier == [Ask("GET", "valid", {}, 200) EXCEPT !.mark = <<m, "barrier">>]
           s == Boundary(m, type, breaks)
           four == <<probe>> \o Barrier(m)
<1>0. T \in 1..6 /\ Capacity \in Nat /\ 3 * T <= Capacity
  BY CapacityOfThree
<1>1. /\ a \in 0..Capacity /\ b \in 0..Capacity /\ c \in 0..Capacity
      /\ T <= a /\ b <= a - T /\ T <= b /\ c <= b - T /\ b <= c + 6
  <2>1. CASE a = 2 * T
    BY <2>1, <1>0
  <2>2. CASE a = 3 * T
    BY <2>2, <1>0
  <2> QED BY <2>1, <2>2
<1>d. s = four \o <<Pause>> /\ b = a - TokenTicks
  BY DEF Boundary
<1> HIDE DEF b, c
<1>2. Covers(probe, a, b) /\ Covers(barrier, b, c)
  BY <1>1 DEF Covers, Answerable, Probe, Ask
<1>3. Covers(Wait(<<m, "barrier">>), c, c) /\ Covers(Absent(<<m, "probe">>), c, c)
  BY <1>1, OtherFields DEF Covers
<1>4. Covers(Pause, c, b)
  BY <1>1, OtherFields DEF Covers, Interval
<1>5. /\ IsScript(Barrier(m)) /\ Len(Barrier(m)) = 3
      /\ Barrier(m)[1] = barrier
      /\ Barrier(m)[2] = Wait(<<m, "barrier">>) /\ Barrier(m)[3] = Absent(<<m, "probe">>)
  BY BarrierIsScript DEF Barrier
<1> HIDE DEF probe, barrier, s
<1>6. Affords(Barrier(m), b, c)
  BY <1>1, <1>2, <1>3, <1>5, StepsAfford
<1>7. Affords(<<probe>>, a, b) /\ Affords(<<Pause>>, c, b)
  BY <1>1, <1>2, <1>4, StepAffords
<1>8. Affords(four, a, c)
  BY <1>6, <1>7, AccountsJoin
<1> HIDE DEF four
<1>9. Affords(four \o <<Pause>>, a, b)
  BY <1>7, <1>8, AccountsJoin
<1> QED BY <1>9, <1>d DEF s

\* The whole script, from a full bucket.
LEMMA ScriptIsAffordable ==
    ASSUME FrequentTokens PROVE \E n, m: n <= Capacity /\ Affords(Script, n, m)
<1> DEFINE T == TokenTicks
           p1 == GetHealth \o UserPath
           p2 == p1 \o NegativeRequests
           p3 == p2 \o StrictProbe
           p4 == p3 \o Encryption
           p5 == p4 \o Network
           p6 == p5 \o Egress
           p7 == p6 \o Throttling
           p8 == p7 \o Alias
           p9 == p8 \o Boundary("text/plain", "text", {"required", "closed"})
           p10 == p9 \o Boundary("white space", "json", {"pattern"})
<1>0. T \in 1..6 /\ 3 * T <= Capacity
  BY CapacityOfThree
<1>e. /\ Earned(0) = 0 /\ Earned(18) = 3 * T
      /\ 0 + 2 = 2 /\ 2 + 6 = 8 /\ 8 + 4 = 12 /\ 12 + 3 = 15 /\ 15 + 3 = 18
  BY <1>0 DEF Earned
<1>g. Affords(GetHealth, 3 * T, 2 * T) /\ Affords(UserPath, 2 * T, T)
  BY BlocksAfford
<1>b. /\ Affords(Boundary("text/plain", "text", {"required", "closed"}), 3 * T, 2 * T)
      /\ Affords(Boundary("white space", "json", {"pattern"}), 2 * T, T)
  <2>1. 3 * T - T = 2 * T /\ 2 * T - T = T
    BY <1>0
  <2>2. \A m, type, breaks: breaks # {} =>
            /\ Affords(Boundary(m, type, breaks), 3 * T, 2 * T)
            /\ Affords(Boundary(m, type, breaks), 2 * T, T)
    BY <2>1, BoundaryAffords
  <2>3. {"required", "closed"} # {} /\ {"pattern"} # {}
    OBVIOUS
  <2> QED BY <2>2, <2>3, Zenon
<1>1. Affords(p1, 3 * T, T)
  BY <1>g, AccountsJoin
<1> HIDE DEF p1
<1>2. Affords(p2, 3 * T, T)
  BY <1>1, NegativeRequestsAfford, AccountsJoin
<1> HIDE DEF p2
<1>3. Affords(p3, 3 * T, Earned(0))
  BY <1>2, <1>e, StrictProbeAffords, AccountsJoin
<1> HIDE DEF p3
<1>4. /\ Affords(Encryption, Earned(0), Earned(2)) /\ Affords(Network, Earned(2), Earned(8))
      /\ Affords(Egress, Earned(8), Earned(12)) /\ Affords(Throttling, Earned(12), Earned(15))
      /\ Affords(Alias, Earned(15), Earned(18))
  <2>1. \A c: \A n, calls \in Nat: Affords(<<Look(c, calls)>>, Earned(n), Earned(n + calls))
    BY LooksAfford
  <2>2. /\ Affords(<<Look("encryption", 2)>>, Earned(0), Earned(0 + 2))
        /\ Affords(<<Look("network", 6)>>, Earned(2), Earned(2 + 6))
        /\ Affords(<<Look("egress", 4)>>, Earned(8), Earned(8 + 4))
        /\ Affords(<<Look("throttling", 3)>>, Earned(12), Earned(12 + 3))
        /\ Affords(<<Look("alias", 3)>>, Earned(15), Earned(15 + 3))
    BY <2>1
  <2> QED BY <2>2, <1>e DEF Encryption, Network, Egress, Throttling, Alias
<1>5. Affords(p4, 3 * T, Earned(2))
  BY <1>3, <1>4, AccountsJoin
<1> HIDE DEF p4
<1>6. Affords(p5, 3 * T, Earned(8))
  BY <1>4, <1>5, AccountsJoin
<1> HIDE DEF p5
<1>7. Affords(p6, 3 * T, Earned(12))
  BY <1>4, <1>6, AccountsJoin
<1> HIDE DEF p6
<1>8. Affords(p7, 3 * T, Earned(15))
  BY <1>4, <1>7, AccountsJoin
<1> HIDE DEF p7
<1>9. Affords(p8, 3 * T, 3 * T)
  BY <1>4, <1>8, <1>e, AccountsJoin
<1> HIDE DEF p8
<1>10. Affords(p9, 3 * T, 2 * T)
  BY <1>9, <1>b, AccountsJoin
<1> HIDE DEF p9
<1>11. Affords(p10, 3 * T, T)
  BY <1>10, <1>b, AccountsJoin
<1> HIDE DEF p10
<1>12. p10 = Script
  BY DEF p1, p2, p3, p4, p5, p6, p7, p8, p9, p10, Script
<1> QED BY <1>0, <1>11, <1>12

\* An account of the script's tokens that a full bucket covers.
Balance == CHOOSE f: Account(Script, f) /\ f[1] <= Capacity

LEMMA BalanceIsKept ==
    ASSUME FrequentTokens PROVE Account(Script, Balance) /\ Balance[1] <= Capacity
<1>1. PICK n, m: n <= Capacity /\ Affords(Script, n, m)
  BY ScriptIsAffordable
<1>2. \E f: Account(Script, f) /\ f[1] <= Capacity
  BY <1>1 DEF Affords
<1> QED BY <1>2 DEF Balance

Unblamed ==
    missing = {} =>
        /\ verdict \in {"none", "passed", "error"}
        /\ verdict = "none" => tokens >= Balance[pc]

\* A stack that lacks nothing gives the expected answer, if it is not throttled.
LEMMA AnswerIsExpected ==
    ASSUME missing = {}, NEW a, Answerable(a), a.key = "valid" => ~Throttled(a)
    PROVE  Status(a) = a.code /\ (a.code = 400 => ModelRefuses(a))
<1>1. KeyRefused(a) <=> a.key # "valid"
  BY DEF KeyRefused
<1>2. CASE a.key # "valid"
  BY <1>1, <1>2 DEF Status, Answerable
<1>3. CASE a.key = "valid" /\ a.code = 200 /\ a.breaks = {}
  <2>1. ~ModelRefuses(a) /\ ~HandlerRefuses(a)
    BY <1>3 DEF ModelRefuses, HandlerRefuses
  <2> QED BY <1>1, <1>3, <2>1 DEF Status
<1>4. CASE a.key = "valid" /\ a.code = 400 /\ a.breaks # {} /\ a.method = "POST"
  <2>1. a.breaks \ missing # {}
    BY <1>4
  <2>2. ModelRefuses(a)
    BY <1>4, <2>1 DEF ModelRefuses
  <2> QED BY <1>1, <1>4, <2>2 DEF Status
<1> QED BY <1>2, <1>3, <1>4 DEF Answerable

\* So no probe gets past a complete stack, and no marker of one is ever shown.
LEMMA CompleteStackRefusesProbes ==
    ASSUME FrequentTokens, missing = {}, NEW a \in Probes PROVE ModelRefuses(a)
<1>1. PICK i \in 1..Len(Script): Script[i] = a /\ Script[i].do = "ask"
  BY StepsByPlace DEF Probes
<1>2. Answerable(a)
  BY <1>1, BalanceIsKept DEF Account, Covers
<1>3. a.code = 400
  BY DEF Probes
<1>4. a.breaks # {} /\ a.method = "POST"
  BY <1>2, <1>3 DEF Answerable
<1>5. a.breaks \ missing # {}
  BY <1>4
<1> QED BY <1>4, <1>5 DEF ModelRefuses

LEMMA UnblamedStep ==
    ASSUME FrequentTokens, IndInv, IndInv', Unblamed, [Next]_vars PROVE Unblamed'
<1> SUFFICES ASSUME missing = {}
             PROVE  /\ verdict' \in {"none", "passed", "error"}
                    /\ verdict' = "none" => tokens' >= Balance[pc']
  BY LogStep DEF Unblamed, IndInv
<1>t. TypeOK /\ missing' = {}
  BY LogStep DEF IndInv
<1>b. Account(Script, Balance)
  BY BalanceIsKept
<1>n. Capacity \in Nat /\ tokens \in 0..Capacity /\ TokenTicks \in Nat /\ Len(Script) \in Nat
  BY <1>t, CapacityIsNat, BucketAssumption, ScriptIsFinite DEF TypeOK
<1>0. ASSUME verdict = "none"
      PROVE  /\ pc \in 1..Len(Script) /\ Step = Script[pc]
             /\ Covers(Step, Balance[pc], Balance[pc + 1])
             /\ Balance[pc] \in 0..Capacity /\ Balance[pc + 1] \in 0..Capacity
             /\ tokens >= Balance[pc]
  <2>1. pc \in 1..Len(Script)
    BY <1>0, <1>t, <1>n DEF TypeOK
  <2>2. pc \in 1..(Len(Script) + 1) /\ pc + 1 \in 1..(Len(Script) + 1)
    BY <2>1, <1>n
  <2> QED BY <1>0, <2>1, <2>2, <1>b DEF Account, Unblamed, Step
<1>e. ASSUME verdict = "none", NEW n \in Nat, tokens' = Earn(n), Balance[pc + 1] <= Balance[pc] + n
      PROVE  tokens' >= Balance[pc + 1]
  BY <1>e, <1>0, <1>n DEF Earn
<1>a. ASSUME verdict = "none", Advance, tokens' >= Balance[pc + 1]
      PROVE  /\ verdict' \in {"none", "passed", "error"}
             /\ verdict' = "none" => tokens' >= Balance[pc']
  BY <1>a DEF Advance
<1>1. CASE Request
  <2>1. verdict = "none" /\ Step.do = "ask"
    BY <1>1 DEF Request, Doing
  <2>2. Answerable(Step)
    BY <1>0, <2>1 DEF Covers
  <2>3. Step.key = "valid" => ~Throttled(Step) /\ Balance[pc + 1] <= tokens - TokenTicks
    BY <1>0, <1>n, <2>1 DEF Covers, Throttled
  <2>4. Status(Step) = Step.code
    BY <2>2, <2>3, AnswerIsExpected
  <2>5. Advance
    BY <1>1, <2>4 DEF Request
  <2>6. tokens' >= Balance[pc + 1]
    <3>1. CASE Step.key = "valid"
      <4>1. tokens' = tokens - TokenTicks
        BY <1>1, <2>3, <3>1 DEF Request, Spend
      <4> QED BY <4>1, <2>3, <3>1, <1>0, <2>1, <1>n
    <3>2. CASE Step.key # "valid"
      <4>1. tokens' = tokens
        BY <1>1, <3>2 DEF Request, Spend
      <4>2. Balance[pc + 1] <= Balance[pc]
        BY <1>0, <2>1, <3>2 DEF Covers
      <4> QED BY <4>1, <4>2, <1>0, <2>1, <1>n
    <3> QED BY <3>1, <3>2
  <2> QED BY <2>1, <2>5, <2>6, <1>a
<1>2. CASE LookUp
  <2>1. verdict = "none" /\ Step.do = "look" /\ tokens' = Earn(Step.calls)
    BY <1>2 DEF LookUp, Doing
  <2>2. Advance
    BY <1>2 DEF LookUp
  <2>3. Step.calls \in Nat /\ Balance[pc + 1] <= Balance[pc] + Step.calls
    BY <1>0, <2>1 DEF Covers
  <2> QED BY <2>1, <2>2, <2>3, <1>a, <1>e
<1>3. CASE SeeMarker
  <2>1. verdict = "none" /\ Step.do = "wait" /\ tokens' = Earn(1) /\ Advance
    BY <1>3 DEF SeeMarker, Doing
  <2>2. Balance[pc + 1] <= Balance[pc] + 1
    BY <1>0, <2>1 DEF Covers
  <2> QED BY <2>1, <2>2, <1>a, <1>e
<1>4. CASE CheckAbsence
  <2>1. verdict = "none" /\ Step.do = "absent" /\ tokens' = Earn(1)
    BY <1>4 DEF CheckAbsence, Doing
  <2>2. Balance[pc + 1] <= Balance[pc] + 1
    BY <1>0, <2>1 DEF Covers
  <2>3. ASSUME verdict' = "marker" PROVE FALSE
    <3>1. PICK a \in Probes: ~ModelRefuses(a)'
      BY <2>3 DEF IndInv, BlamedProbeReachedLambda, Probes, Requests
    <3>2. ~ModelRefuses(a)
      BY <1>t, <3>1 DEF ModelRefuses
    <3> QED BY <3>1, <3>2, CompleteStackRefusesProbes
  <2>4. Advance
    BY <1>4, <2>3 DEF CheckAbsence, Fail
  <2> QED BY <2>1, <2>2, <2>4, <1>a, <1>e
<1>5. CASE Sleep
  <2>1. verdict = "none" /\ Step.do = "pause" /\ tokens' = Earn(Interval) /\ Advance
    BY <1>5 DEF Sleep, Doing
  <2>2. Balance[pc + 1] <= Balance[pc] + Interval /\ Interval \in Nat
    BY <1>0, <2>1 DEF Covers, Interval
  <2> QED BY <2>1, <2>2, <1>a, <1>e
<1>6. CASE Breaks
  BY <1>6 DEF Breaks, Fail
<1>7. CASE Tick
  <2>1. verdict = "none" /\ verdict' = verdict /\ pc' = pc /\ tokens' = tokens + 1
    BY <1>7 DEF Tick
  <2> QED BY <2>1, <1>0, <1>n
<1>8. ASSUME NEW e \in Env, Ingest(e)
      PROVE  /\ verdict' \in {"none", "passed", "error"}
             /\ verdict' = "none" => tokens' >= Balance[pc']
  BY <1>8 DEF Ingest, Unblamed
<1>9. CASE UNCHANGED vars
  BY <1>9 DEF vars, Unblamed
<1> QED BY <1>1, <1>2, <1>3, <1>4, <1>5, <1>6, <1>7, <1>8, <1>9 DEF Next

\* With a bucket of three tokens and a pause that earns one, a release whose stack
\* has all its controls is failed by no request, no marker and no look-up of the
\* verification, in whatever order the log is ingested: what is left is an error.
THEOREM CompleteStackPasses ==
    ASSUME FrequentTokens PROVE Spec => []CompleteStackIsNotBlamed
<1>1. Init => Unblamed
  <2> SUFFICES ASSUME Init PROVE Unblamed
    OBVIOUS
  <2>1. verdict = "none" /\ pc = 1 /\ tokens = Capacity
    BY DEF Init
  <2>2. tokens >= Balance[1]
    BY <2>1, BalanceIsKept, CapacityIsNat
  <2> QED BY <2>1, <2>2 DEF Unblamed
<1>2. IndInv /\ IndInv' /\ Unblamed /\ [Next]_vars => Unblamed'
  BY UnblamedStep
<1>3. Unblamed => CompleteStackIsNotBlamed
  BY DEF Unblamed, CompleteStackIsNotBlamed
<1> QED BY <1>1, <1>2, <1>3, Invariance, PTL DEF Spec

=============================================================================
