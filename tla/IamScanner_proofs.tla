------------------------- MODULE IamScanner_proofs -------------------------
(***************************************************************************)
(* Proofs about IamScanner, for any statement ids, search window, nesting  *)
(* and number of wildcards, and for sources of any length.                 *)
(***************************************************************************)
EXTENDS IamScanner, TLAPS

\* The passes over a line are where HCL is, and past a line comment nowhere
\* they could take anything over to the next line.
Lockstep ==
    LET s == scan["audit"]
    IN IF s.cut THEN hcl = "line" /\ s.mode \in {"code", "string", "escape"}
       ELSE hcl = s.mode /\ s.mode \in Mode

Shape == scan \in [{"audit", "sid"} -> [mode : Mode, cut : BOOLEAN]]

ScanInv == Shape /\ Lockstep

LEMMA ScanStep == ScanInv /\ [Next]_vars => ScanInv'
<1> SUFFICES ASSUME ScanInv, [Next]_vars PROVE ScanInv'
  OBVIOUS
<1> USE DEF ScanInv, Shape, Mode
<1>1. ASSUME NEW c \in Symbol, Read(c) PROVE ScanInv'
  <2>1. Shape'
    BY <1>1 DEF Read, Scanned, Strip, Cuts
  <2>2. /\ hcl' = HclAfter(hcl, c) /\ c # "newline" /\ Audited(c)
        /\ scan'["audit"] = Scanned(scan["audit"], c)
    BY <1>1 DEF Read, Source
  <2>3. Lockstep'
    <3>1. CASE scan["audit"].cut
      BY <2>2, <3>1 DEF Lockstep, Scanned, Strip, Cuts, HclAfter, Audited
    <3>2. CASE ~scan["audit"].cut /\ hcl = "code"
      <4>0. scan["audit"].mode = "code"
        BY <3>2 DEF Lockstep
      <4>1. CASE c = "#"
        <5>1. hcl' = "line"
          BY <2>2, <3>2, <4>1 DEF HclAfter
        <5>2. Strip("code", "#") = "code"
          BY DEF Strip
        <5>3. scan'["audit"].mode = "code"
          BY <2>2, <4>0, <4>1, <5>2 DEF Scanned
        <5>4. scan'["audit"].cut = TRUE
          <6>1. (scan["audit"].cut \/ Cuts(scan["audit"], c)) = TRUE
            BY <4>0, <4>1, Zenon DEF Cuts
          <6>2. scan'["audit"].cut = (scan["audit"].cut \/ Cuts(scan["audit"], c))
            BY <2>2 DEF Scanned
          <6> QED BY <6>1, <6>2
        <5> QED BY <5>1, <5>3, <5>4 DEF Lockstep, Mode
      <4>2. CASE c # "#"
        <5>1. scan'["audit"].cut = FALSE
          BY <2>2, <3>2, <4>2 DEF Scanned, Strip, Cuts
        <5>2. hcl' = scan'["audit"].mode
          BY <2>2, <3>2, <4>0, <4>2 DEF Scanned, Strip, Cuts, HclAfter
        <5> QED BY <2>1, <5>1, <5>2 DEF Lockstep
      <4> QED BY <4>1, <4>2
    <3>3. CASE ~scan["audit"].cut /\ hcl # "code"
      BY <2>2, <3>3 DEF Lockstep, Scanned, Strip, Cuts, HclAfter
    <3> QED BY <3>1, <3>2, <3>3
  <2> QED BY <2>1, <2>3
<1>2. CASE EndLine
  <2>1. /\ hcl' = HclAfter(hcl, "newline") /\ Legal(hcl, truth, "newline")
        /\ scan' = [p \in DOMAIN scan |-> NextLine(p, scan[p])]
    BY <1>2 DEF EndLine, Source
  <2>2. Shape'
    BY <2>1 DEF NextLine
  <2>3. Lockstep'
    BY <2>1 DEF Lockstep, NextLine, HclAfter, Legal, Text
  <2> QED BY <2>2, <2>3
<1>3. CASE EndFile
  BY <1>3 DEF EndFile, Lockstep
<1>4. CASE UNCHANGED vars
  BY <1>4 DEF vars, Lockstep
<1> QED BY <1>1, <1>2, <1>3, <1>4 DEF Next

\* check_iam_wildcards.py:79-155: for every source, the two passes leave of each
\* line exactly what HCL reads as code or as a string.
THEOREM SeenIsCode == Spec => []ScannerSeesCode
<1>1. Init => ScanInv
  BY DEF Init, ScanInv, Shape, Lockstep, Mode
<1>2. ScanInv => ScannerSeesCode
  BY DEF ScanInv, Shape, Lockstep, Mode, ScannerSeesCode, Seen, Cuts, Legal
<1> QED BY <1>1, <1>2, ScanStep, PTL DEF Spec

(***************************************************************************)
(* The audit against the meaning of the source.                            *)
(***************************************************************************)
Typed ==
    /\ truth \in [lit : Lit, brackets : Int, base : Int, sid : Key, age : Int, lead : Lead,
                  doubt : BOOLEAN, misled : BOOLEAN, wild : [Key -> Nat], action : BOOLEAN]
    /\ line \in [segment : BOOLEAN, delta : Int, lit : Lit, stars : Nat,
                 actionStar : BOOLEAN, sid : Key]
    /\ file \in [depth : Nat, observed : [Key -> Nat], failed : BOOLEAN, near : Key, age : Int]
    /\ allowed \in [Key -> Nat]
    /\ verdict \in {"none", "passed", "failed"}

\* The search for sids does not know of a block comment from an earlier line, and
\* where the line is not garbled that is all it does not know.
SidLockstep ==
    LET s == scan["sid"]
    IN /\ truth.lead = "open" => hcl = "block"
       /\ truth.lead # "garbled" =>
             IF hcl = "block" THEN ~s.cut /\ s.mode \in {"code", "block"}
                                   /\ (truth.lead # "open" => s.mode = "block")
             ELSE IF s.cut THEN hcl = "line" ELSE hcl = s.mode

SameLiteral ==
    /\ line.lit = truth.lit
    /\ truth.lit # "none" <=> hcl \in {"string", "escape"}

\* While an action value is read, the segment is open and its depth is known.
SameSegment ==
    /\ truth.brackets >= 0 /\ truth.base >= -1
    /\ ~line.segment => file.depth = 0 /\ line.delta = 0
    /\ truth.base # -1 =>
          /\ line.segment
          /\ truth.brackets >= truth.base
          /\ file.depth + line.delta = truth.brackets - truth.base

\* The sid of a line that is not garbled is the statement's, and without doubt the
\* nearest one is, as far as the window reaches.
SameSid ==
    /\ truth.lead # "garbled" /\ line.sid # NoSid => truth.sid = line.sid /\ truth.age = 0
    /\ ~truth.doubt =>
          /\ truth.sid = NoSid => line.sid = NoSid /\ file.near = NoSid
          /\ line.sid # NoSid => truth.sid = line.sid /\ truth.age = 0
          /\ line.sid = NoSid =>
                /\ file.age = truth.age
                /\ truth.age < Window => file.near = truth.sid

\* Unless a wildcard was read in doubt, all are counted where they belong.
SameCount ==
    /\ truth.lead # "clear" /\ line.stars > 0 => truth.misled
    /\ ~truth.misled => truth.wild = [file.observed EXCEPT ![NearestSid] = @ + line.stars]

FailedForAReason ==
    /\ truth.action => file.failed \/ line.actionStar
    /\ line.actionStar => truth.action
    /\ \A k \in Key: file.observed[k] > allowed[k] => file.failed
    /\ file.failed => truth.action \/ \E k \in Key: file.observed[k] > allowed[k]

AuditInv ==
    /\ ScanInv /\ Typed
    /\ SidLockstep /\ SameLiteral /\ SameSegment /\ SameSid /\ SameCount /\ FailedForAReason
    /\ AuditIsExact /\ ActionWildcardIsRefused

LEMMA SidsAreNotText ==
    ASSUME NEW c \in Sid
    PROVE  c # NoSid /\ c \notin Text /\ c # "actions=" /\ c # "newline"
BY SidAssumption DEF Key

\* What the audit sees of a symbol, in terms of HCL.
LEMMA SeenAsHcl ==
    ASSUME AuditInv, NEW c \in Symbol, Read(c)
    PROVE  /\ hcl = "code" /\ c \notin {"#", "/*"} =>
                 Seen(scan["audit"], c) /\ scan["audit"].mode = "code"
           /\ hcl \in {"string", "escape"} => Seen(scan["audit"], c) /\ scan["audit"].mode = hcl
           /\ Seen(scan["audit"], c) => hcl = scan["audit"].mode
           /\ hcl = "code" /\ c \in {"#", "/*"} => ~Seen(scan["audit"], c)
           /\ hcl \in {"line", "block"} => ~Seen(scan["audit"], c)
<1>1. Shape /\ Lockstep /\ Legal(hcl, truth, c)
  BY DEF AuditInv, ScanInv, Read, Source
<1> QED BY <1>1 DEF Shape, Lockstep, Mode, Seen, Cuts

\* On a line that is not garbled a sid is found exactly where HCL has one.
LEMMA SidAsHcl ==
    ASSUME AuditInv, NEW c \in Symbol, Read(c), LeadAfter(truth.lead, hcl, c) # "garbled"
    PROVE  Seen(scan["sid"], c) /\ c \in Sid <=> hcl = "code" /\ c \in Sid
<1>1. Shape /\ Lockstep /\ SidLockstep /\ Legal(hcl, truth, c) /\ c # "newline"
  BY DEF AuditInv, ScanInv, Read, Source
<1> SUFFICES ASSUME c \in Sid PROVE Seen(scan["sid"], c) <=> hcl = "code"
  OBVIOUS
<1>2. c \notin Text
  BY SidsAreNotText
<1>3. hcl # "string" /\ hcl # "escape"
  BY <1>1, <1>2 DEF Legal, Text
<1>4. ~Cuts(scan["sid"], c) /\ c # "/*" /\ c # "*/" /\ c # "quote" /\ c # "#"
  BY <1>2 DEF Cuts, Text
<1>5. truth.lead # "garbled" /\ truth.lead # "open"
  BY <1>1, <1>4 DEF LeadAfter
<1>6. hcl \in {"code", "line", "block"}
  BY <1>1, <1>3 DEF Lockstep, Shape, Mode
<1> QED BY <1>1, <1>4, <1>5, <1>6 DEF SidLockstep, Seen, Shape, Mode

Star(c) == hcl = "string" /\ c = "quote" /\ truth.lit = "star"

\* What the audit makes of a symbol, in terms of HCL.
LEMMA LineAsHcl ==
    ASSUME AuditInv, NEW c \in Symbol, Read(c)
    PROVE  /\ line'.segment <=> line.segment \/ (hcl = "code" /\ c = "actions=")
           /\ line'.delta = line.delta + (IF line.segment /\ hcl = "code" /\ c = "[" THEN 1 ELSE 0)
                                      - (IF line.segment /\ hcl = "code" /\ c = "]" THEN 1 ELSE 0)
           /\ line'.lit = IF Seen(scan["audit"], c) THEN LiteralAfter(line.lit, hcl, c) ELSE line.lit
           /\ line'.stars = line.stars + (IF Star(c) THEN 1 ELSE 0)
           /\ line'.actionStar <=> line.actionStar \/ (Star(c) /\ line.segment)
           /\ line'.sid # line.sid => line'.sid = c /\ c \in Sid
           /\ LeadAfter(truth.lead, hcl, c) # "garbled" =>
                 line'.sid = IF line.sid = NoSid /\ hcl = "code" /\ c \in Sid THEN c ELSE line.sid
<1> DEFINE s == scan["audit"]
           code == Seen(s, c) /\ s.mode = "code"
           star == Seen(s, c) /\ s.mode = "string" /\ c = "quote" /\ line.lit = "star"
           isSid == Seen(scan["sid"], c) /\ c \in Sid
<1>0. line.lit = truth.lit
  BY DEF AuditInv, SameLiteral
<1>1. c \notin {"#", "/*"} => (code <=> hcl = "code")
  BY SeenAsHcl
<1>2. star <=> Star(c)
  BY SeenAsHcl, <1>0 DEF Star
<1>3. /\ LeadAfter(truth.lead, hcl, c) # "garbled" => (isSid <=> hcl = "code" /\ c \in Sid)
      /\ isSid => c \in Sid
  BY SidAsHcl
<1>4. Seen(s, c) => s.mode = hcl
  BY SeenAsHcl
<1> HIDE DEF code, star, isSid
<1>5. line' = [segment |-> line.segment \/ (code /\ c = "actions="),
               delta |-> line.delta + (IF line.segment /\ code /\ c = "[" THEN 1 ELSE 0)
                                    - (IF line.segment /\ code /\ c = "]" THEN 1 ELSE 0),
               lit |-> IF Seen(s, c) THEN LiteralAfter(line.lit, s.mode, c) ELSE line.lit,
               stars |-> line.stars + (IF star THEN 1 ELSE 0),
               actionStar |-> line.actionStar \/ (star /\ line.segment),
               sid |-> IF line.sid = NoSid /\ isSid THEN c ELSE line.sid]
  BY Zenon DEF Read, LineAfter, code, star, isSid
<1>6. line'.segment <=> line.segment \/ (hcl = "code" /\ c = "actions=")
  BY <1>1, <1>5
<1>7. line'.delta = line.delta + (IF line.segment /\ hcl = "code" /\ c = "[" THEN 1 ELSE 0)
                               - (IF line.segment /\ hcl = "code" /\ c = "]" THEN 1 ELSE 0)
  BY <1>1, <1>5
<1>8. line'.lit = IF Seen(s, c) THEN LiteralAfter(line.lit, hcl, c) ELSE line.lit
  BY <1>4, <1>5
<1>9. line'.stars = line.stars + (IF Star(c) THEN 1 ELSE 0)
  BY <1>2, <1>5
<1>10. line'.actionStar <=> line.actionStar \/ (Star(c) /\ line.segment)
  BY <1>2, <1>5
<1>11. /\ line'.sid # line.sid => line'.sid = c /\ c \in Sid
       /\ LeadAfter(truth.lead, hcl, c) # "garbled" =>
             line'.sid = IF line.sid = NoSid /\ hcl = "code" /\ c \in Sid THEN c ELSE line.sid
  BY <1>3, <1>5
<1> QED BY <1>6, <1>7, <1>8, <1>9, <1>10, <1>11

Service(c) == hcl = "string" /\ c = "quote" /\ truth.lit = "service:*"

\* What a symbol means.
LEMMA TruthFields ==
    ASSUME AuditInv, NEW c \in Symbol, Read(c)
    PROVE  LET level == truth.brackets + (IF hcl = "code" /\ c = "[" THEN 1 ELSE 0)
                                       - (IF hcl = "code" /\ c = "]" THEN 1 ELSE 0)
               ends == ((hcl = "string" /\ c = "quote") \/ (hcl = "code" /\ c = "]")) /\ level = truth.base
           IN /\ truth'.lit = LiteralAfter(truth.lit, hcl, c)
              /\ truth'.brackets = level
              /\ truth'.base = IF hcl = "code" /\ c = "actions=" THEN truth.brackets
                              ELSE IF ends THEN -1 ELSE truth.base
              /\ truth'.sid = IF hcl = "code" /\ c \in Sid THEN c ELSE truth.sid
              /\ truth'.age = IF hcl = "code" /\ c \in Sid THEN 0 ELSE truth.age
              /\ truth'.lead = LeadAfter(truth.lead, hcl, c)
              /\ truth'.doubt = IF c \in Sid /\ (hcl = "code" \/ truth'.lead = "garbled")
                                THEN truth'.lead = "garbled" ELSE truth.doubt
              /\ truth'.misled <=> truth.misled \/ (Star(c) /\ (truth.doubt \/ truth'.lead = "garbled"))
              /\ truth'.wild = IF Star(c) THEN [truth.wild EXCEPT ![truth.sid] = @ + 1] ELSE truth.wild
              /\ truth'.action <=> truth.action \/ Service(c) \/ (Star(c) /\ truth.base # -1)
<1>1. truth' = TruthAfter(truth, hcl, c) /\ c # "newline"
  BY DEF Read, Source
<1> QED BY <1>1 DEF TruthAfter, Star, Service

\* What the audit keeps of a symbol.
LEMMA FileAsHcl ==
    ASSUME AuditInv, NEW c \in Symbol, Read(c)
    PROVE  /\ file'.failed <=> file.failed \/ Service(c)
           /\ file'.depth = file.depth /\ file'.observed = file.observed
           /\ file'.near = file.near /\ file'.age = file.age
<1>1. ServiceWildcard(c) <=> Service(c)
  BY SeenAsHcl DEF ServiceWildcard, Service, AuditInv, SameLiteral
<1>2. file' = [file EXCEPT !.failed = file.failed \/ ServiceWildcard(c)]
  BY DEF Read
<1> QED BY <1>1, <1>2 DEF AuditInv, Typed

LEMMA ReadTyped ==
    ASSUME AuditInv, NEW c \in Symbol, Read(c)
    PROVE  Typed'
<1>0. Typed
  BY DEF AuditInv
<1>1. \A l \in Lit: \A m, d: LiteralAfter(l, m, d) \in Lit
  BY DEF LiteralAfter, Lit
<1>2. truth' \in [lit : Lit, brackets : Int, base : Int, sid : Key, age : Int, lead : Lead,
                  doubt : BOOLEAN, misled : BOOLEAN, wild : [Key -> Nat], action : BOOLEAN]
  <2>1. truth' = TruthAfter(truth, hcl, c)
    BY DEF Read, Source
  <2>2. truth'.lit \in Lit /\ truth'.brackets \in Int /\ truth'.base \in Int
    BY <1>0, <1>1, TruthFields DEF Typed
  <2>3. truth'.sid \in Key /\ truth'.age \in Int
    BY <1>0, TruthFields DEF Typed, Key
  <2>4. truth'.wild \in [Key -> Nat]
    BY <1>0, TruthFields DEF Typed
  <2>5. truth'.action \in BOOLEAN /\ truth'.doubt \in BOOLEAN /\ truth'.misled \in BOOLEAN
    BY <1>0, <2>1 DEF Typed, TruthAfter
  <2>6. truth'.lead \in Lead
    BY <1>0, TruthFields DEF Typed, LeadAfter, Lead
  <2> QED BY <2>1, <2>2, <2>3, <2>4, <2>5, <2>6 DEF TruthAfter
<1>3. line' \in [segment : BOOLEAN, delta : Int, lit : Lit, stars : Nat,
                actionStar : BOOLEAN, sid : Key]
  <2>1. line' = LineAfter(line, c)
    BY DEF Read
  <2>2. line'.delta \in Int /\ line'.lit \in Lit /\ line'.stars \in Nat /\ line'.sid \in Key
    BY <1>0, <1>1, LineAsHcl DEF Typed, Key
  <2>3. line'.segment \in BOOLEAN /\ line'.actionStar \in BOOLEAN
    BY <1>0, <2>1 DEF Typed, LineAfter
  <2> QED BY <2>1, <2>2, <2>3 DEF LineAfter
<1>4. file' \in [depth : Nat, observed : [Key -> Nat], failed : BOOLEAN, near : Key, age : Int]
  BY <1>0 DEF Read, Typed
<1> QED BY <1>0, <1>2, <1>3, <1>4 DEF Typed, Read, Source

LEMMA ScannedFields ==
    ASSUME NEW s, NEW t, NEW c, t = Scanned(s, c)
    PROVE  (t.cut <=> s.cut \/ Cuts(s, c)) /\ t.mode = Strip(s.mode, c)
BY DEF Scanned

LEMMA ReadSidLockstep ==
    ASSUME AuditInv, NEW c \in Symbol, Read(c)
    PROVE  SidLockstep'
<1>1. /\ scan'["sid"] = Scanned(scan["sid"], c) /\ hcl' = HclAfter(hcl, c)
      /\ Audited(c) /\ Legal(hcl, truth, c) /\ c # "newline"
      /\ Shape /\ Lockstep /\ SidLockstep
  BY DEF AuditInv, ScanInv, Read, Source, Shape
<1>2. truth'.lead = LeadAfter(truth.lead, hcl, c)
  BY TruthFields
<1>3. truth'.lead = "open" => truth.lead = "open" /\ hcl' = "block"
  BY <1>1, <1>2 DEF LeadAfter, SidLockstep, HclAfter
<1>4. truth'.lead # "garbled" => truth.lead # "garbled"
  BY <1>1, <1>2 DEF LeadAfter
<1> SUFFICES ASSUME truth'.lead # "garbled", truth.lead # "garbled"
             PROVE  LET s == scan'["sid"]
                    IN IF hcl' = "block" THEN ~s.cut /\ s.mode \in {"code", "block"}
                                              /\ (truth'.lead # "open" => s.mode = "block")
                       ELSE IF s.cut THEN hcl' = "line" ELSE hcl' = s.mode
  BY <1>3, <1>4 DEF SidLockstep
<1> DEFINE s == scan["sid"]
<1>5. CASE hcl = "block"
  <2>1. ~s.cut /\ s.mode \in {"code", "block"} /\ (truth.lead # "open" => s.mode = "block")
    BY <1>1, <1>5 DEF SidLockstep
  <2>2. truth.lead = "open" => c # "#" /\ c # "quote" /\ (truth'.lead = "open" <=> c # "*/")
    BY <1>1, <1>2 DEF LeadAfter
  <2>3. Strip(s.mode, c) = IF c = "*/" THEN "code"
                           ELSE IF s.mode = "block" \/ c = "/*" THEN "block" ELSE "code"
    BY <2>1, <2>2 DEF Strip
  <2>4. ~scan'["sid"].cut /\ scan'["sid"].mode = Strip(s.mode, c)
    BY <1>1, <2>1, <2>2, ScannedFields DEF Cuts
  <2>5. hcl' = IF c = "*/" THEN "code" ELSE "block"
    BY <1>1, <1>5 DEF HclAfter
  <2> QED BY <2>1, <2>2, <2>3, <2>4, <2>5
<1>6. hcl # "block" => truth.lead # "open" /\ truth'.lead # "open"
  BY <1>1, <1>3 DEF SidLockstep
<1>7. CASE hcl # "block" /\ s.cut
  <2>1. hcl = "line" /\ hcl' = "line"
    BY <1>1, <1>7 DEF SidLockstep, HclAfter
  <2>2. scan'["sid"].cut
    BY <1>1, <1>7, ScannedFields
  <2> QED BY <2>1, <2>2
<1>8. CASE hcl # "block" /\ ~s.cut
  <2>1. hcl = s.mode
    BY <1>1, <1>8 DEF SidLockstep
  <2>2. CASE Cuts(s, c)
    <3>1. scan'["sid"].cut
      BY <1>1, <2>2, ScannedFields
    <3>2. hcl' = "line"
      BY <1>1, <2>1, <2>2 DEF Cuts, HclAfter
    <3> QED BY <3>1, <3>2
  <2>3. CASE ~Cuts(s, c)
    <3>1. ~scan'["sid"].cut /\ scan'["sid"].mode = Strip(s.mode, c)
      BY <1>1, <1>8, <2>3, ScannedFields
    <3>2. hcl' = Strip(s.mode, c)
      BY <1>1, <1>8, <2>1, <2>3 DEF Cuts, HclAfter, Strip, Shape, Mode
    <3> QED BY <1>6, <1>8, <3>1, <3>2
  <2> QED BY <2>2, <2>3
<1> QED BY <1>5, <1>7, <1>8

LEMMA ReadSameLiteral ==
    ASSUME AuditInv, NEW c \in Symbol, Read(c)
    PROVE  SameLiteral'
<1>0. SameLiteral /\ Lockstep /\ Shape
  BY DEF AuditInv, ScanInv
<1>1. hcl' = HclAfter(hcl, c) /\ truth'.lit = LiteralAfter(truth.lit, hcl, c)
  BY TruthFields DEF Read, Source
<1>2. hcl \in {"code", "string", "escape", "line", "block"}
  BY <1>0 DEF Lockstep, Shape, Mode
<1>3. truth'.lit # "none" <=> hcl' \in {"string", "escape"}
  <2>1. CASE hcl = "code"
    BY <1>0, <1>1, <2>1 DEF SameLiteral, HclAfter, LiteralAfter
  <2>2. CASE hcl = "string"
    <3>1. CASE c = "quote"
      <4>1. LiteralAfter(truth.lit, "string", "quote") = "none"
        BY DEF LiteralAfter
      <4>2. HclAfter("string", "quote") = "code"
        BY DEF HclAfter
      <4> QED BY <1>1, <2>2, <3>1, <4>1, <4>2
    <3>2. CASE c # "quote"
      <4>1. LiteralAfter(truth.lit, "string", c) # "none"
        BY <3>2 DEF LiteralAfter
      <4>2. HclAfter("string", c) \in {"string", "escape"}
        BY <3>2 DEF HclAfter
      <4> QED BY <1>1, <2>2, <4>1, <4>2
    <3> QED BY <3>1, <3>2
  <2>3. CASE hcl = "escape"
    BY <1>0, <1>1, <2>3 DEF SameLiteral, HclAfter, LiteralAfter
  <2>4. CASE hcl \in {"line", "block"}
    BY <1>0, <1>1, <2>4 DEF SameLiteral, HclAfter, LiteralAfter
  <2> QED BY <1>2, <2>1, <2>2, <2>3, <2>4
<1>4. line'.lit = truth'.lit
  <2>1. ~Seen(scan["audit"], c) => LiteralAfter(truth.lit, hcl, c) = truth.lit
    <3> SUFFICES ASSUME ~Seen(scan["audit"], c) PROVE LiteralAfter(truth.lit, hcl, c) = truth.lit
      OBVIOUS
    <3>1. hcl \in {"line", "block"} \/ (hcl = "code" /\ c \in {"#", "/*"})
      BY <1>2, SeenAsHcl
    <3> QED BY <3>1 DEF LiteralAfter
  <2>2. line.lit = truth.lit
    BY <1>0 DEF SameLiteral
  <2> QED BY <1>1, <2>1, <2>2, LineAsHcl
<1> QED BY <1>3, <1>4 DEF SameLiteral

LEMMA ReadSameSegment ==
    ASSUME AuditInv, NEW c \in Symbol, Read(c)
    PROVE  SameSegment'
<1>0. Typed /\ SameSegment /\ Legal(hcl, truth, c) /\ Audited(c)
  BY DEF AuditInv, Read, Source
<1> USE DEF Typed, SameSegment
<1>1. file'.depth = file.depth
  BY FileAsHcl
<1>2. CASE hcl = "code" /\ c = "actions="
  <2>1. ~line.segment /\ truth.base = -1
    BY <1>0, <1>2 DEF Audited, Legal
  <2>2. truth'.base = truth.brackets /\ truth'.brackets = truth.brackets
    BY <1>0, <1>2, TruthFields
  <2>3. line'.segment /\ line'.delta = line.delta
    BY <1>0, <1>2, LineAsHcl
  <2> QED BY <1>0, <1>1, <2>1, <2>2, <2>3
<1>3. CASE hcl = "code" /\ c = "["
  <2>1. truth'.base = truth.base /\ truth'.brackets = truth.brackets + 1
    BY <1>0, <1>3, TruthFields
  <2>2. /\ line'.segment <=> line.segment
        /\ line'.delta = IF line.segment THEN line.delta + 1 ELSE line.delta
    BY <1>0, <1>3, LineAsHcl
  <2> QED BY <1>0, <1>1, <2>1, <2>2
<1>4. CASE hcl = "code" /\ c = "]"
  <2>1. /\ truth'.base \in {-1, truth.base} /\ truth'.brackets = truth.brackets - 1
        /\ truth.brackets > 0 /\ truth.base # truth.brackets
    BY <1>0, <1>4, TruthFields DEF Legal
  <2>2. /\ line'.segment <=> line.segment
        /\ line'.delta = IF line.segment THEN line.delta - 1 ELSE line.delta
    BY <1>0, <1>4, LineAsHcl
  <2> QED BY <1>0, <1>1, <2>1, <2>2
<1>5. CASE ~(hcl = "code" /\ c \in {"actions=", "[", "]"})
  <2>1. truth'.base \in {-1, truth.base} /\ truth'.brackets = truth.brackets
    BY <1>0, <1>5, TruthFields
  <2>2. (line'.segment <=> line.segment) /\ line'.delta = line.delta
    BY <1>0, <1>5, LineAsHcl
  <2> QED BY <1>0, <1>1, <2>1, <2>2
<1> QED BY <1>2, <1>3, <1>4, <1>5

LEMMA ReadSameSid ==
    ASSUME AuditInv, NEW c \in Symbol, Read(c)
    PROVE  SameSid'
<1>0. Typed /\ SameSid /\ Audited(c) /\ c # "newline"
  BY DEF AuditInv, Read, Source
<1>1. file'.near = file.near /\ file'.age = file.age
  BY FileAsHcl
<1>2. truth'.lead = LeadAfter(truth.lead, hcl, c) /\ (truth'.lead # "garbled" => truth.lead # "garbled")
  BY <1>0, TruthFields DEF LeadAfter
<1>3. CASE c \in Sid /\ truth'.lead = "garbled"
  BY <1>3, TruthFields DEF SameSid
<1>4. CASE hcl = "code" /\ c \in Sid /\ truth'.lead # "garbled"
  <2>1. line.sid = NoSid
    BY <1>0, <1>2, <1>4 DEF Audited, SameSid
  <2>2. truth'.sid = c /\ truth'.age = 0 /\ line'.sid = c /\ c # NoSid
    BY <1>2, <1>4, <2>1, TruthFields, LineAsHcl, SidsAreNotText
  <2> QED BY <2>2 DEF SameSid
<1>5. CASE c \notin Sid \/ (hcl # "code" /\ truth'.lead # "garbled")
  <2>1. truth'.sid = truth.sid /\ truth'.age = truth.age /\ truth'.doubt = truth.doubt
    BY <1>5, TruthFields
  <2>2. line'.sid = line.sid
    BY <1>2, <1>5, LineAsHcl
  <2> QED BY <1>0, <1>1, <1>2, <2>1, <2>2 DEF SameSid
<1> QED BY <1>3, <1>4, <1>5

LEMMA ReadSameCount ==
    ASSUME AuditInv, NEW c \in Symbol, Read(c)
    PROVE  SameCount'
<1>0. Typed /\ SameSid /\ SameCount /\ SidLockstep /\ Audited(c) /\ c # "newline"
  BY DEF AuditInv, Read, Source
<1>1. file'.near = file.near /\ file'.age = file.age /\ file'.observed = file.observed
  BY FileAsHcl
<1>2. NearestSid \in Key /\ file.observed \in [Key -> Nat] /\ line.stars \in Nat
  BY <1>0 DEF NearestSid, Typed, Key
<1>3. truth'.lead = LeadAfter(truth.lead, hcl, c) /\ (truth.misled => truth'.misled)
  BY TruthFields
<1>4. truth'.lead # "clear" /\ line'.stars > 0 => truth'.misled
  <2> SUFFICES ASSUME truth'.lead # "clear", line'.stars > 0 PROVE truth'.misled
    OBVIOUS
  <2>1. truth.lead # "clear"
    BY <1>0, <1>3 DEF LeadAfter
  <2>2. Star(c) => truth'.lead = "garbled"
    BY <1>0, <1>3, <2>1 DEF Star, SidLockstep, LeadAfter, Typed, Lead
  <2>3. CASE Star(c)
    BY <2>2, <2>3, TruthFields
  <2>4. CASE ~Star(c)
    <3>1. line'.stars = line.stars
      BY <1>2, <2>4, LineAsHcl
    <3> QED BY <1>0, <1>3, <2>1, <3>1 DEF SameCount
  <2> QED BY <2>3, <2>4
<1> SUFFICES ASSUME ~truth'.misled, ~truth.misled
             PROVE  truth'.wild = [file'.observed EXCEPT ![NearestSid'] = file'.observed[NearestSid'] + line'.stars]
  BY <1>3, <1>4 DEF SameCount
<1>5. CASE Star(c)
  <2>0. ~truth.doubt /\ truth'.lead # "garbled"
    BY <1>5, TruthFields
  <2>1. line'.sid = line.sid
    BY <1>3, <1>5, <2>0, LineAsHcl DEF Star
  <2>2. NearestSid' = NearestSid
    BY <1>1, <2>1 DEF NearestSid
  <2>3. truth.sid = NoSid \/ truth.age < Window
    BY <1>0, <1>5 DEF Star, Audited
  <2>4. truth.sid = NearestSid
    BY <1>0, <2>0, <2>3 DEF SameSid, NearestSid
  <2>5. truth'.wild = [truth.wild EXCEPT ![truth.sid] = truth.wild[truth.sid] + 1]
    BY <1>5, TruthFields
  <2>6. line'.stars = line.stars + 1
    BY <1>5, LineAsHcl
  <2>7. truth.wild = [file.observed EXCEPT ![NearestSid] = file.observed[NearestSid] + line.stars]
    BY <1>0 DEF SameCount
  <2>8. truth'.wild = [file.observed EXCEPT ![NearestSid] = file.observed[NearestSid] + line.stars + 1]
    BY <1>2, <2>4, <2>5, <2>7
  <2>9. file.observed[NearestSid] + line.stars + 1 = file.observed[NearestSid] + line'.stars
    BY <1>2, <2>6
  <2> QED BY <1>1, <2>2, <2>8, <2>9
<1>6. CASE ~Star(c) /\ line'.sid = line.sid
  <2>1. NearestSid' = NearestSid /\ line'.stars = line.stars /\ truth'.wild = truth.wild
    BY <1>0, <1>1, <1>6, TruthFields, LineAsHcl DEF NearestSid, Typed
  <2> QED BY <1>0, <1>1, <2>1 DEF SameCount
<1>7. CASE ~Star(c) /\ line'.sid # line.sid
  <2>1. c \in Sid /\ line'.stars = line.stars /\ truth'.wild = truth.wild
    BY <1>0, <1>7, TruthFields, LineAsHcl DEF Typed
  <2>2. line.stars = 0
    <3>1. CASE truth'.lead = "garbled"
      BY <1>0, <1>2, <1>4, <2>1, <3>1
    <3>2. CASE truth'.lead # "garbled"
      BY <1>0, <1>2, <1>3, <1>7, <3>2, LineAsHcl DEF Audited
    <3> QED BY <3>1, <3>2
  <2>3. NearestSid' \in Key
    BY <1>0, ReadTyped DEF NearestSid, Typed, Key
  <2>4. truth.wild = file.observed
    BY <1>0, <1>2, <2>2 DEF SameCount
  <2>5. file.observed = [file.observed EXCEPT ![NearestSid'] = file.observed[NearestSid'] + 0]
    BY <1>2, <2>3
  <2> QED BY <1>1, <2>1, <2>2, <2>4, <2>5
<1> QED BY <1>5, <1>6, <1>7

LEMMA ReadFailedForAReason ==
    ASSUME AuditInv, NEW c \in Symbol, Read(c)
    PROVE  FailedForAReason'
<1>0. Typed /\ FailedForAReason /\ SameSegment /\ Audited(c) /\ allowed' = allowed
  BY DEF AuditInv, Read, Source
<1>1. /\ file'.failed <=> file.failed \/ Service(c)
      /\ file'.observed = file.observed
  BY FileAsHcl
<1>2. truth'.action <=> truth.action \/ Service(c) \/ (Star(c) /\ truth.base # -1)
  BY TruthFields
<1>3. line'.actionStar <=> line.actionStar \/ (Star(c) /\ line.segment)
  BY LineAsHcl
<1>4. Star(c) => (line.segment <=> truth.base # -1)
  BY <1>0 DEF Star, Audited, SameSegment
<1> QED BY <1>0, <1>1, <1>2, <1>3, <1>4 DEF FailedForAReason

LEMMA ReadStep == ASSUME AuditInv, NEW c \in Symbol, Read(c) PROVE AuditInv'
<1>1. ScanInv'
  <2>1. [Next]_vars
    BY DEF Next
  <2> QED BY <2>1, ScanStep DEF AuditInv
<1>2. AuditIsExact'
  BY DEF Read, Source, AuditIsExact
<1>3. ActionWildcardIsRefused'
  BY DEF Read, Source, ActionWildcardIsRefused
<1> QED BY <1>1, <1>2, <1>3, ReadTyped, ReadSidLockstep, ReadSameLiteral, ReadSameSegment, ReadSameSid,
       ReadSameCount, ReadFailedForAReason DEF AuditInv

LEMMA EndLineStep == ASSUME AuditInv, EndLine PROVE AuditInv'
<1>0. /\ ScanInv /\ Typed /\ SidLockstep /\ SameLiteral /\ SameSegment /\ SameSid /\ SameCount
      /\ FailedForAReason
      /\ Legal(hcl, truth, "newline") /\ allowed' = allowed /\ verdict' = verdict /\ verdict = "none"
      /\ hcl' = HclAfter(hcl, "newline") /\ truth' = TruthAfter(truth, hcl, "newline")
      /\ scan' = [p \in DOMAIN scan |-> NextLine(p, scan[p])]
      /\ file' = FileAfter /\ line' = NewLine(file'.depth)
  BY DEF AuditInv, EndLine, Source
<1> Window \in Nat /\ Window > 0
  BY BoundsAssumption
<1>1. ScanInv'
  <2>1. [Next]_vars
    BY DEF Next, AuditInv
  <2> QED BY <1>0, <2>1, ScanStep
<1>2. "newline" \notin Sid /\ "newline" \notin Text
  BY SidAssumption DEF Key, Text
<1>3. hcl \in {"code", "line", "block"}
  BY <1>0, <1>2 DEF ScanInv, Shape, Lockstep, Mode, Legal, Text
<1>4. /\ truth'.lit = "none" /\ truth.lit = "none" /\ truth'.brackets = truth.brackets /\ truth'.base = truth.base
      /\ truth'.sid = truth.sid /\ truth'.age = IF truth.age < Window THEN truth.age + 1 ELSE truth.age
      /\ truth'.wild = truth.wild /\ truth'.action = truth.action
      /\ truth'.lead = (IF hcl = "block" THEN "open" ELSE "clear")
      /\ truth'.doubt = truth.doubt /\ truth'.misled = truth.misled
  <2>1. truth.lit = "none"
    BY <1>0, <1>3 DEF SameLiteral
  <2>2. LiteralAfter(truth.lit, hcl, "newline") = "none"
    BY <1>3, <2>1 DEF LiteralAfter
  <2>3. LeadAfter(truth.lead, hcl, "newline") = IF hcl = "block" THEN "open" ELSE "clear"
    BY <1>2 DEF LeadAfter
  <2> QED BY <1>0, <1>2, <1>3, <2>1, <2>2, <2>3 DEF TruthAfter, Typed
<1>5. /\ line'.segment <=> file'.depth > 0
      /\ line'.delta = 0 /\ line'.lit = "none" /\ line'.stars = 0 /\ line'.actionStar = FALSE
      /\ line'.sid = NoSid
      /\ line' \in [segment : BOOLEAN, delta : Int, lit : Lit, stars : Nat,
                    actionStar : BOOLEAN, sid : Key]
  <2>1. InSegment(file'.depth) \in BOOLEAN /\ (InSegment(file'.depth) <=> file'.depth > 0)
    BY DEF InSegment
  <2>2. line' = [segment |-> InSegment(file'.depth), delta |-> 0, lit |-> "none", stars |-> 0,
                 actionStar |-> FALSE, sid |-> NoSid]
    BY <1>0 DEF NewLine
  <2> QED BY <2>1, <2>2 DEF Lit, Key
<1> DEFINE seen == [file.observed EXCEPT ![NearestSid] = file.observed[NearestSid] + line.stars]
<1>6. /\ file'.depth = IF file.depth + line.delta > 0 THEN file.depth + line.delta ELSE 0
      /\ file'.observed = seen
      /\ file'.failed = (file.failed \/ LineErrs(seen))
      /\ file'.near = NearestSid
      /\ file'.age = IF line.sid # NoSid THEN 1 ELSE IF file.age < Window THEN file.age + 1 ELSE file.age
  BY <1>0 DEF FileAfter
<1>7. NearestSid \in Key /\ seen \in [Key -> Nat] /\ (~truth.misled => seen = truth.wild)
  BY <1>0 DEF NearestSid, Typed, Key, SameCount
<1>8. Typed'
  <2>1. truth' \in [lit : Lit, brackets : Int, base : Int, sid : Key, age : Int, lead : Lead,
                    doubt : BOOLEAN, misled : BOOLEAN, wild : [Key -> Nat], action : BOOLEAN]
    <3>1. truth'.lit \in Lit
      BY <1>4 DEF Lit
    <3>2. /\ truth'.brackets \in Int /\ truth'.base \in Int /\ truth'.sid \in Key
          /\ truth'.age \in Int /\ truth'.wild \in [Key -> Nat] /\ truth'.action \in BOOLEAN
          /\ truth'.lead \in Lead /\ truth'.doubt \in BOOLEAN /\ truth'.misled \in BOOLEAN
      BY <1>0, <1>4 DEF Typed, Lead
    <3> QED BY <1>0, <3>1, <3>2 DEF TruthAfter
  <2>2. file'.depth \in Nat /\ file'.near \in Key /\ file'.age \in Int
    BY <1>0, <1>6, <1>7 DEF Typed
  <2>3. file'.failed \in BOOLEAN
    BY <1>0, <1>6 DEF Typed, LineErrs
  <2>4. file' \in [depth : Nat, observed : [Key -> Nat], failed : BOOLEAN, near : Key, age : Int]
    BY <1>0, <1>6, <1>7, <2>2, <2>3 DEF FileAfter
  <2> QED BY <1>0, <1>5, <2>1, <2>4 DEF Typed
<1>9. SidLockstep'
  <2>1. scan'["sid"] = [mode |-> "code", cut |-> FALSE]
    BY <1>0 DEF ScanInv, Shape, NextLine
  <2>2. hcl' = IF hcl = "block" THEN "block" ELSE "code"
    BY <1>0, <1>3 DEF HclAfter
  <2> QED BY <1>4, <2>1, <2>2 DEF SidLockstep
<1>10. SameLiteral'
  <2>1. hcl' \in {"code", "block"}
    BY <1>0, <1>3 DEF HclAfter
  <2> QED BY <1>4, <1>5, <2>1 DEF SameLiteral
<1>11. SameSegment'
  <2>1. truth.base # -1 => truth.brackets > truth.base
    BY <1>0 DEF SameSegment, Legal, Typed
  <2> QED BY <1>0, <1>4, <1>5, <1>6, <2>1 DEF SameSegment, Typed
<1>12. SameSid'
  <2>1. CASE line.sid # NoSid
    BY <1>0, <1>4, <1>5, <1>6, <2>1 DEF SameSid, NearestSid, Typed
  <2>2. CASE line.sid = NoSid
    BY <1>0, <1>4, <1>5, <1>6, <2>2 DEF SameSid, NearestSid, Typed
  <2> QED BY <2>1, <2>2
<1>13. SameCount'
  <2>1. NearestSid' \in Key
    BY <1>8 DEF NearestSid, Typed, Key
  <2>2. seen = [seen EXCEPT ![NearestSid'] = seen[NearestSid'] + 0]
    BY <1>7, <2>1
  <2> QED BY <1>4, <1>5, <1>6, <1>7, <2>2 DEF SameCount
<1>14. FailedForAReason'
  <2>1. \A k \in Key: seen[k] = IF k = NearestSid THEN file.observed[k] + line.stars ELSE file.observed[k]
    BY <1>0, <1>7 DEF Typed
  <2>2. file'.failed <=> file.failed \/ line.actionStar
                         \/ (line.stars > 0 /\ seen[NearestSid] > allowed[NearestSid])
    BY <1>6 DEF LineErrs
  <2> HIDE DEF seen
  <2>3. truth'.action => file'.failed
    BY <1>0, <1>4, <2>2 DEF FailedForAReason
  <2>4. \A k \in Key: file'.observed[k] > allowed[k] => file'.failed
    BY <1>0, <1>6, <1>7, <2>1, <2>2 DEF FailedForAReason, Typed
  <2>5. file'.failed => truth'.action \/ \E k \in Key: file'.observed[k] > allowed[k]
    <3>1. CASE file.failed
      BY <1>0, <1>4, <1>6, <2>1, <3>1 DEF FailedForAReason, Typed
    <3>2. CASE line.actionStar
      BY <1>0, <1>4, <3>2 DEF FailedForAReason
    <3>3. CASE line.stars > 0 /\ seen[NearestSid] > allowed[NearestSid]
      BY <1>6, <1>7, <3>3
    <3> QED BY <2>2, <3>1, <3>2, <3>3
  <2> QED BY <1>0, <1>5, <2>3, <2>4, <2>5 DEF FailedForAReason
<1>15. AuditIsExact' /\ ActionWildcardIsRefused'
  BY <1>0 DEF AuditIsExact, ActionWildcardIsRefused
<1> QED BY <1>1, <1>8, <1>9, <1>10, <1>11, <1>12, <1>13, <1>14, <1>15 DEF AuditInv

\* At the end of the file the audit has counted what there is.
LEMMA EndFileStep == ASSUME AuditInv, EndFile PROVE AuditInv'
<1>0. /\ Typed /\ SameCount /\ FailedForAReason
      /\ line = NewLine(file.depth) /\ UNCHANGED <<hcl, truth, scan, line, file, allowed>>
      /\ verdict' = IF ~file.failed /\ CatalogueMatches THEN "passed" ELSE "failed"
  BY DEF AuditInv, EndFile
<1>1. line.stars = 0 /\ ~line.actionStar
  BY <1>0 DEF NewLine
<1>2. ~truth.misled => truth.wild = file.observed
  <2>1. NearestSid \in Key
    BY <1>0 DEF NearestSid, Typed, Key
  <2> QED BY <1>0, <1>1, <2>1 DEF SameCount, Typed
<1>3. ~file.failed => ~truth.action
  BY <1>0, <1>1 DEF FailedForAReason
<1>4. ASSUME ~truth.misled
      PROVE  ~file.failed /\ CatalogueMatches <=> truth.wild = allowed /\ ~truth.action
  <2>1. ASSUME ~file.failed, CatalogueMatches PROVE truth.wild = allowed
    <3>1. ASSUME NEW k \in Key PROVE file.observed[k] = allowed[k]
      BY <1>0, <2>1 DEF CatalogueMatches, FailedForAReason, Typed
    <3> QED BY <1>0, <1>2, <1>4, <3>1 DEF Typed
  <2>2. ASSUME truth.wild = allowed, ~truth.action PROVE ~file.failed /\ CatalogueMatches
    <3>1. \A k \in Key: file.observed[k] = allowed[k] /\ allowed[k] \in Nat
      BY <1>0, <1>2, <1>4, <2>2 DEF Typed
    <3> QED BY <1>0, <2>2, <3>1 DEF FailedForAReason, CatalogueMatches
  <2> QED BY <1>3, <2>1, <2>2
<1>5. AuditIsExact' /\ ActionWildcardIsRefused'
  BY <1>0, <1>3, <1>4 DEF AuditIsExact, ActionWildcardIsRefused
<1>6. ScanInv' /\ Typed' /\ SidLockstep' /\ SameLiteral' /\ SameSegment' /\ SameSid' /\ SameCount'
      /\ FailedForAReason'
  <2>1. verdict' \in {"none", "passed", "failed"}
    BY <1>0
  <2> QED BY <1>0, <2>1 DEF AuditInv, ScanInv, Shape, Lockstep, Typed, SidLockstep, SameLiteral, SameSegment,
          SameSid, SameCount, NearestSid, FailedForAReason
<1> QED BY <1>5, <1>6 DEF AuditInv

LEMMA AuditInvInit == Init => AuditInv
<1> SUFFICES ASSUME Init PROVE AuditInv
  OBVIOUS
<1>1. ScanInv /\ SidLockstep
  BY DEF Init, ScanInv, Shape, Lockstep, Mode, SidLockstep
<1>2. line = [segment |-> FALSE, delta |-> 0, lit |-> "none", stars |-> 0, actionStar |-> FALSE, sid |-> NoSid]
  <2>1. InSegment(0) = FALSE
    BY DEF InSegment
  <2> QED BY <2>1, Zenon DEF Init, NewLine
<1>3. NoneFound \in [Key -> Nat] /\ \A k \in Key: NoneFound[k] = 0
  BY DEF NoneFound
<1>4. Typed
  <2>1. line \in [segment : BOOLEAN, delta : Int, lit : Lit, stars : Nat, actionStar : BOOLEAN, sid : Key]
    BY <1>2 DEF Lit, Key
  <2>2. truth \in [lit : Lit, brackets : Int, base : Int, sid : Key, age : Int, lead : Lead,
                   doubt : BOOLEAN, misled : BOOLEAN, wild : [Key -> Nat], action : BOOLEAN]
    BY <1>3 DEF Init, Lit, Lead, Key
  <2>3. file \in [depth : Nat, observed : [Key -> Nat], failed : BOOLEAN, near : Key, age : Int]
    BY <1>3 DEF Init, Key
  <2>4. allowed \in [Key -> Nat] /\ verdict \in {"none", "passed", "failed"}
    BY BoundsAssumption DEF Init
  <2> QED BY <2>1, <2>2, <2>3, <2>4 DEF Typed
<1>5. SameLiteral /\ SameSegment /\ SameSid /\ AuditIsExact /\ ActionWildcardIsRefused
  BY <1>2 DEF Init, SameLiteral, SameSegment, SameSid, AuditIsExact, ActionWildcardIsRefused
<1>6. SameCount
  <2>1. NearestSid \in Key
    BY <1>4 DEF NearestSid, Typed, Key
  <2> QED BY <1>2, <1>3, <2>1 DEF Init, SameCount
<1>7. FailedForAReason
  BY <1>2, <1>3, <1>4 DEF Init, FailedForAReason, Typed
<1> QED BY <1>1, <1>4, <1>5, <1>6, <1>7 DEF AuditInv

LEMMA AuditStep == AuditInv /\ [Next]_vars => AuditInv'
<1> SUFFICES ASSUME AuditInv, [Next]_vars PROVE AuditInv'
  OBVIOUS
<1>1. CASE UNCHANGED vars
  BY <1>1 DEF vars, AuditInv, ScanInv, Shape, Lockstep, Typed, SidLockstep, SameLiteral, SameSegment,
     SameSid, SameCount, NearestSid, FailedForAReason, AuditIsExact, ActionWildcardIsRefused
<1> QED BY <1>1, ReadStep, EndLineStep, EndFileStep DEF Next

\* check_iam_wildcards.py:97-106, 227-272: a source in the audited style passes
\* exactly if its wildcards are the catalogued ones, each under its sid, and none
\* is an action; unless a wildcard is read where the search for its sid meets a
\* garbled line: for any catalogue, any ids and a source of any length.
THEOREM WildcardsAreCounted == Spec => []AuditIsExact
BY AuditInvInit, AuditStep, PTL DEF Spec, AuditInv

\* README.md:479: no catalogue makes an action wildcard pass, in any source.
THEOREM ActionWildcardsAreRefused == Spec => []ActionWildcardIsRefused
BY AuditInvInit, AuditStep, PTL DEF Spec, AuditInv

(***************************************************************************)
(* Types.                                                                  *)
(***************************************************************************)
\* The counters that the model bounds, and the ages that the window bounds.
Bounded ==
    /\ truth.brackets <= MaxDepth /\ truth.base <= MaxDepth
    /\ truth.age \in 0..Window /\ file.age \in 0..Window
    /\ truth.wild \in [Key -> 0..MaxWild] /\ allowed \in [Key -> 0..MaxWild]

\* An action value begins at an open bracket, and ages stop at the window.
LEMMA BoundedStep == AuditInv /\ Bounded /\ [Next]_vars => Bounded'
<1> SUFFICES ASSUME AuditInv, Bounded, [Next]_vars PROVE Bounded'
  OBVIOUS
<1>0. Typed /\ SameSegment /\ Typed'
  BY AuditStep DEF AuditInv
<1>1. ASSUME NEW c, Source(c)
      PROVE  /\ truth'.brackets <= MaxDepth /\ truth'.base <= MaxDepth
             /\ truth'.age \in 0..Window
             /\ truth'.wild \in [Key -> 0..MaxWild] /\ allowed' \in [Key -> 0..MaxWild]
  <2>1. truth' = TruthAfter(truth, hcl, c) /\ Legal(hcl, truth, c)
        /\ (\A k \in Key: truth'.wild[k] <= MaxWild) /\ UNCHANGED allowed
    BY <1>1 DEF Source
  <2>2. truth'.brackets = truth.brackets + (IF hcl = "code" /\ c = "[" THEN 1 ELSE 0)
                            - (IF hcl = "code" /\ c = "]" THEN 1 ELSE 0)
    BY <2>1 DEF TruthAfter
  <2>3. truth'.base \in {truth.brackets, truth.base, -1}
    BY <2>1 DEF TruthAfter
  <2>4. truth'.age \in {0, truth.age} \/ (truth.age < Window /\ truth'.age = truth.age + 1)
    BY <2>1 DEF TruthAfter
  <2>5. truth'.brackets <= MaxDepth
    BY <1>0, <2>1, <2>2, BoundsAssumption DEF Bounded, Legal, Typed
  <2>6. truth'.base <= MaxDepth
    BY <1>0, <2>3, BoundsAssumption DEF Bounded, Typed
  <2>7. truth'.age \in 0..Window
    BY <1>0, <2>4, BoundsAssumption DEF Bounded, Typed
  <2>8. truth'.wild \in [Key -> 0..MaxWild]
    BY <1>0, <2>1, BoundsAssumption DEF Typed
  <2> QED BY <2>1, <2>5, <2>6, <2>7, <2>8 DEF Bounded
<1>2. ASSUME NEW c \in Symbol, Read(c) PROVE Bounded'
  <2>1. Source(c) /\ file'.age = file.age
    BY <1>0, <1>2 DEF Read, Typed
  <2> QED BY <1>1, <2>1 DEF Bounded
<1>3. CASE EndLine
  <2>1. Source("newline") /\ file'.age \in {1, file.age} \cup (IF file.age < Window THEN {file.age + 1} ELSE {})
    BY <1>3 DEF EndLine, FileAfter
  <2>2. file'.age \in 0..Window
    BY <1>0, <2>1, BoundsAssumption DEF Bounded, Typed
  <2> QED BY <1>1, <2>1, <2>2 DEF Bounded
<1>4. CASE EndFile \/ UNCHANGED vars
  BY <1>4 DEF EndFile, vars, Bounded
<1> QED BY <1>2, <1>3, <1>4 DEF Next

\* Every variable of the scanner's model keeps its type, the modes of its passes
\* and its counters included.
THEOREM TypeCorrect == Spec => []TypeOK
<1>1. Init => Bounded
  <2> SUFFICES ASSUME Init PROVE Bounded
    OBVIOUS
  <2>1. NoneFound \in [Key -> 0..MaxWild]
    BY BoundsAssumption DEF NoneFound
  <2> QED BY <2>1, BoundsAssumption DEF Init, Bounded
<1>2. AuditInv /\ Bounded => TypeOK
  <2> SUFFICES ASSUME AuditInv, Bounded PROVE TypeOK
    OBVIOUS
  <2>1. hcl \in Mode \cup {"line"} /\ scan \in [{"audit", "sid"} -> [mode : Mode, cut : BOOLEAN]]
    BY DEF AuditInv, ScanInv, Shape, Lockstep
  <2>2. Typed /\ SameSegment
    BY DEF AuditInv
  <2>3. /\ truth.brackets \in 0..MaxDepth /\ truth.base \in -1..MaxDepth
        /\ truth.age \in 0..Window /\ file.age \in 0..Window
        /\ truth.wild \in [Key -> 0..MaxWild] /\ allowed \in [Key -> 0..MaxWild]
    BY <2>2, BoundsAssumption DEF Typed, SameSegment, Bounded
  <2>4. truth \in [lit : Lit, brackets : 0..MaxDepth, base : -1..MaxDepth, sid : Key,
                   age : 0..Window, lead : Lead, doubt : BOOLEAN, misled : BOOLEAN,
                   wild : [Key -> 0..MaxWild], action : BOOLEAN]
    BY <2>2, <2>3 DEF Typed
  <2>5. file \in [depth : Nat, observed : [Key -> Nat], failed : BOOLEAN, near : Key, age : 0..Window]
    BY <2>2, <2>3 DEF Typed
  <2> QED BY <2>1, <2>2, <2>3, <2>4, <2>5 DEF TypeOK, Typed
<1> QED BY <1>1, <1>2, AuditInvInit, AuditStep, BoundedStep, PTL DEF Spec

=============================================================================
