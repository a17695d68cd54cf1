----------------------------- MODULE IamScanner -----------------------------
(***************************************************************************)
(* The IAM wildcard audit, scripts/check_iam_wildcards.py, reading one     *)
(* Terraform source symbol by symbol, beside what the same symbols mean in *)
(* HCL.  The source is not fixed: each step reads any symbol that keeps it *)
(* well formed, so TLC follows sources of every length.                    *)
(*                                                                         *)
(* Comment markers, "actions =", a whole sid assignment and a service      *)
(* wildcard such as kms:* are one symbol each, # stands for // as well and *)
(* "word" for any other text that is not part of a service's name.         *)
(* Templates with quotes in them, heredocs, strings that hold the text of  *)
(* an assignment and parentheses around an action list are not generated:  *)
(* the audited sources have none.  Wildcards in ARNs, paths and templates  *)
(* ("/*" in a string is one) are counted like "*", each under a key with   *)
(* its own literal; those entries of the catalogue are taken to match.     *)
(***************************************************************************)
EXTENDS Integers

CONSTANTS
    Sid,         \* statement ids that may occur
    NoSid,
    Window,      \* lines searched for a sid, 100 in the code
    MaxDepth,    \* bound on open brackets
    MaxWild      \* bound on the wildcards under one sid

Text == {"quote", "backslash", "#", "/*", "*/", "star", "[", "]", "service:*", "word"}
Symbol == Text \cup {"actions=", "newline"} \cup Sid
Key == Sid \cup {NoSid}

ASSUME SidAssumption == NoSid \notin Sid /\ Key \cap (Text \cup {"actions=", "newline"}) = {}
ASSUME BoundsAssumption == Window \in Nat \ {0} /\ MaxDepth \in Nat /\ MaxWild \in Nat

VARIABLES
    hcl,       \* what HCL is in: code, string, escape, line or block (comment)
    truth,     \* the source so far, by its meaning
    scan,      \* where the audit and its search for sids are in the line
    line,      \* what the audit has found on this line
    file,      \* what it keeps from line to line
    allowed,   \* expected_count of each catalogued wildcard, 0 for none
    verdict

vars == <<hcl, truth, scan, line, file, allowed, verdict>>

(***************************************************************************)
(* HCL: three kinds of comment, strings that end on their line.            *)
(***************************************************************************)
HclAfter(m, c) ==
    CASE m = "code" /\ c = "quote" -> "string"
      [] m = "code" /\ c = "#" -> "line"
      [] m = "code" /\ c = "/*" -> "block"
      [] m = "string" /\ c = "backslash" -> "escape"
      [] m = "string" /\ c = "quote" -> "code"
      [] m = "escape" -> "string"
      [] m = "line" /\ c = "newline" -> "code"
      [] m = "block" /\ c = "*/" -> "code"
      [] OTHER -> m

\* An action value begins on the line of its assignment, as terraform fmt has it.
Legal(m, t, c) ==
    /\ m = "code" => c \notin {"backslash", "*/"}
    /\ m = "code" /\ c = "[" => t.brackets < MaxDepth
    /\ m = "code" /\ c = "]" => t.brackets > 0 /\ t.base # t.brackets
    /\ m = "code" /\ c = "actions=" => t.base = -1
    /\ m = "string" => c \in Text
    /\ m = "escape" => c \in {"quote", "backslash", "word"}
    /\ c = "newline" => t.base # t.brackets

\* Class of the string being read, "none" outside one: "star" and "service:*"
\* for a wildcard that is the whole string, "prefix" for one at the end of other
\* text, such as s3:Get*.
LiteralAfter(lit, m, c) ==
    CASE m = "code" /\ c = "quote" -> "empty"
      [] m = "string" /\ c = "quote" -> "none"
      [] m = "string" /\ c = "star" /\ lit \in {"empty", "other", "prefix"} ->
            IF lit = "empty" THEN "star" ELSE "prefix"
      [] m = "string" /\ c = "service:*" /\ lit = "empty" -> c
      [] m = "string" /\ c # "quote" -> "other"
      [] m = "escape" -> "other"
      [] OTHER -> lit

\* How the line begins, which is what the search for sids does not know: with an
\* "open" block comment of an earlier line, "garbled" once that comment has a
\* quote, a # or a sid on this line, with neither once it is closed.
LeadAfter(lead, m, c) ==
    CASE c = "newline" -> IF m = "block" THEN "open" ELSE "clear"
      [] lead = "open" /\ c = "*/" -> "clear"
      [] lead = "open" /\ c \in {"quote", "#"} \cup Sid -> "garbled"
      [] OTHER -> lead

\* base is the bracket level of the action value being read, -1 outside one.
\* wild has the wildcards that are whole strings, each under the last sid, and
\* action whether one is an action.  doubt says that the last line with a sid is
\* garbled, and misled that a wildcard was read in doubt or on a garbled line.
TruthAfter(t, m, c) ==
    LET closes == m = "string" /\ c = "quote"
        lead == LeadAfter(t.lead, m, c)
        level == t.brackets + (IF m = "code" /\ c = "[" THEN 1 ELSE 0)
                            - (IF m = "code" /\ c = "]" THEN 1 ELSE 0)
        ends == (closes \/ (m = "code" /\ c = "]")) /\ level = t.base
    IN [lit |-> LiteralAfter(t.lit, m, c),
        brackets |-> level,
        base |-> IF m = "code" /\ c = "actions=" THEN t.brackets ELSE IF ends THEN -1 ELSE t.base,
        sid |-> IF m = "code" /\ c \in Sid THEN c ELSE t.sid,
        age |-> IF m = "code" /\ c \in Sid THEN 0
                ELSE IF c = "newline" /\ t.age < Window THEN t.age + 1 ELSE t.age,
        lead |-> lead,
        doubt |-> IF c \in Sid /\ (m = "code" \/ lead = "garbled") THEN lead = "garbled" ELSE t.doubt,
        misled |-> t.misled \/ (closes /\ t.lit = "star" /\ (t.doubt \/ lead = "garbled")),
        wild |-> IF closes /\ t.lit = "star" THEN [t.wild EXCEPT ![t.sid] = @ + 1] ELSE t.wild,
        action |-> t.action \/ (closes /\ (t.lit = "service:*" \/ (t.lit = "star" /\ t.base # -1)))]

(***************************************************************************)
(* The two passes over a line: block comments, then the line comment.      *)
(* Both toggle on the same quotes, so one mode serves them.                *)
(***************************************************************************)
Strip(m, c) ==
    CASE m = "block" -> IF c = "*/" THEN "code" ELSE "block"
      [] m = "escape" -> "string"
      [] m = "string" -> IF c = "backslash" THEN "escape" ELSE IF c = "quote" THEN "code" ELSE "string"
      [] m = "code" -> IF c = "quote" THEN "string" ELSE IF c = "/*" THEN "block" ELSE "code"

Cuts(s, c) == s.mode = "code" /\ c = "#"

\* The symbol is in what both passes leave of the line.
Seen(s, c) == ~s.cut /\ ~Cuts(s, c) /\ s.mode # "block" /\ ~(s.mode = "code" /\ c = "/*")

Scanned(s, c) == [mode |-> Strip(s.mode, c), cut |-> s.cut \/ Cuts(s, c)]

\* Variant: every line is taken to begin outside comments, as the search for sids does.
NoCommentCarried(p, s) == [mode |-> "code", cut |-> FALSE]

\* Only the audit carries an open comment to the next line.
NextLine(p, s) ==
    [mode |-> IF p = "audit" /\ s.mode = "block" THEN "block" ELSE "code", cut |-> FALSE]

(***************************************************************************)
(* Literals, action segments and brackets of a line.                       *)
(***************************************************************************)
InSegment(depth) == depth > 0

NewLine(depth) ==
    [segment |-> InSegment(depth), delta |-> 0, lit |-> "none", stars |-> 0,
     actionStar |-> FALSE, sid |-> NoSid]

LineAfter(l, c) ==
    LET s == scan["audit"]
        code == Seen(s, c) /\ s.mode = "code"
        star == Seen(s, c) /\ s.mode = "string" /\ c = "quote" /\ l.lit = "star"
        isSid == Seen(scan["sid"], c) /\ c \in Sid
    IN [segment |-> l.segment \/ (code /\ c = "actions="),
        delta |-> l.delta + (IF l.segment /\ code /\ c = "[" THEN 1 ELSE 0)
                          - (IF l.segment /\ code /\ c = "]" THEN 1 ELSE 0),
        lit |-> IF Seen(s, c) THEN LiteralAfter(l.lit, s.mode, c) ELSE l.lit,
        stars |-> l.stars + (IF star THEN 1 ELSE 0),
        actionStar |-> l.actionStar \/ (star /\ l.segment),
        sid |-> IF l.sid = NoSid /\ isSid THEN c ELSE l.sid]

ServiceWildcard(c) ==
    Seen(scan["audit"], c) /\ scan["audit"].mode = "string" /\ c = "quote" /\ line.lit = "service:*"

\* Variant: the sid of an earlier line is preferred to the line's own.
StaleSid == IF file.age < Window /\ file.near # NoSid THEN file.near ELSE line.sid

NearestSid ==
    IF line.sid # NoSid THEN line.sid ELSE IF file.age < Window THEN file.near ELSE NoSid

\* Variant: a catalogued wildcard is accepted wherever it stands.
CatalogueFirst(observed) == line.stars > 0 /\ observed[NearestSid] > allowed[NearestSid]

\* An action wildcard is an error whatever the catalogue says.
LineErrs(observed) ==
    line.actionStar \/ (line.stars > 0 /\ observed[NearestSid] > allowed[NearestSid])

FileAfter ==
    LET observed == [file.observed EXCEPT ![NearestSid] = @ + line.stars]
    IN [depth |-> IF file.depth + line.delta > 0 THEN file.depth + line.delta ELSE 0,
        observed |-> observed,
        failed |-> file.failed \/ LineErrs(observed),
        near |-> NearestSid,
        age |-> IF line.sid # NoSid THEN 1 ELSE IF file.age < Window THEN file.age + 1 ELSE file.age]

(***************************************************************************)
(* The style of the audited sources, which the audit counts on: no /* in a *)
(* line comment, one action assignment and one sid on a line, no other     *)
(* wildcard beside an action assignment, and a sid before the wildcards of *)
(* its statement and within reach of them.                                 *)
(***************************************************************************)
Audited(c) ==
    LET star == hcl = "string" /\ c = "quote" /\ truth.lit = "star"
    IN /\ ~(hcl = "line" /\ c = "/*")
       /\ ~(hcl = "code" /\ c = "actions=" /\ line.segment)
       /\ hcl = "code" /\ c \in Sid => line.stars = 0 /\ (truth.sid = NoSid \/ truth.age > 0)
       /\ star => (truth.base # -1 \/ ~line.segment) /\ (truth.sid = NoSid \/ truth.age < Window)

(***************************************************************************)
(* The state machine.                                                      *)
(***************************************************************************)
NoneFound == [k \in Key |-> 0]

Init ==
    /\ hcl = "code"
    /\ truth = [lit |-> "none", brackets |-> 0, base |-> -1, sid |-> NoSid, age |-> 0,
                lead |-> "clear", doubt |-> FALSE, misled |-> FALSE,
                wild |-> NoneFound, action |-> FALSE]
    /\ scan = [p \in {"audit", "sid"} |-> [mode |-> "code", cut |-> FALSE]]
    /\ line = NewLine(0)
    /\ file = [depth |-> 0, observed |-> NoneFound, failed |-> FALSE, near |-> NoSid, age |-> 0]
    /\ allowed \in [Key -> 0..MaxWild]
    /\ verdict = "none"

\* Meaning moves on by one symbol.
Source(c) ==
    /\ verdict = "none"
    /\ Legal(hcl, truth, c) /\ Audited(c)
    /\ hcl' = HclAfter(hcl, c)
    /\ truth' = TruthAfter(truth, hcl, c)
    /\ \A k \in Key: truth'.wild[k] <= MaxWild
    /\ UNCHANGED <<allowed, verdict>>

Read(c) ==
    /\ c # "newline" /\ Source(c)
    /\ scan' = [p \in DOMAIN scan |-> Scanned(scan[p], c)]
    /\ line' = LineAfter(line, c)
    /\ file' = [file EXCEPT !.failed = @ \/ ServiceWildcard(c)]

EndLine ==
    /\ Source("newline")
    /\ scan' = [p \in DOMAIN scan |-> NextLine(p, scan[p])]
    /\ file' = FileAfter
    /\ line' = NewLine(file'.depth)

CatalogueMatches == \A k \in Key: allowed[k] > 0 => file.observed[k] = allowed[k]

EndFile ==
    /\ verdict = "none" /\ hcl = "code" /\ truth.brackets = 0 /\ line = NewLine(file.depth)
    /\ verdict' = IF ~file.failed /\ CatalogueMatches THEN "passed" ELSE "failed"
    /\ UNCHANGED <<hcl, truth, scan, line, file, allowed>>

Next == EndLine \/ EndFile \/ \E c \in Symbol: Read(c)

Spec == Init /\ [][Next]_vars

(***************************************************************************)
(* Properties.                                                             *)
(***************************************************************************)
Mode == {"code", "string", "escape", "block"}
Lit == {"none", "empty", "star", "service:*", "prefix", "other"}
Lead == {"clear", "open", "garbled"}

TypeOK ==
    /\ hcl \in Mode \cup {"line"}
    /\ truth \in [lit : Lit, brackets : 0..MaxDepth, base : -1..MaxDepth, sid : Key,
                  age : 0..Window, lead : Lead, doubt : BOOLEAN, misled : BOOLEAN,
                  wild : [Key -> 0..MaxWild], action : BOOLEAN]
    /\ scan \in [{"audit", "sid"} -> [mode : Mode, cut : BOOLEAN]]
    /\ line \in [segment : BOOLEAN, delta : Int, lit : Lit, stars : Nat,
                 actionStar : BOOLEAN, sid : Key]
    /\ file \in [depth : Nat, observed : [Key -> Nat], failed : BOOLEAN, near : Key, age : 0..Window]
    /\ allowed \in [Key -> 0..MaxWild]
    /\ verdict \in {"none", "passed", "failed"}

\* _strip_block_comments and _strip_line_comment together leave of a line what
\* HCL reads as code or string, with comments over several lines, quotes in
\* comments and comment markers in strings.
ScannerSeesCode ==
    \A c \in Symbol \ {"newline"}:
        Legal(hcl, truth, c) =>
            (Seen(scan["audit"], c) <=>
                \/ hcl \in {"string", "escape"}
                \/ hcl = "code" /\ c \notin {"#", "/*"})

\* README.md:479: an action wildcard is never accepted, in a list over several
\* lines or alone, whatever the catalogue has for its statement.
ActionWildcardIsRefused == verdict = "passed" => ~truth.action

\* A source passes exactly if the wildcards that are whole strings are the
\* catalogued ones, each under the sid it follows, and none is an action; unless
\* the search for a sid meets a line that begins in a block comment which has a
\* quote, a # or a sid there.  Wildcards after a prefix change nothing.
AuditIsExact ==
    verdict # "none" /\ ~truth.misled =>
        (verdict = "passed" <=> truth.wild = allowed /\ ~truth.action)

\* iam-wildcard-exceptions.json:3: "Every occurrence is counted and tied to a
\* statement context", with no such exception.  Violated: the sid of a statement
\* that was commented out takes the wildcard of the next one.
EveryOccurrenceIsTied ==
    verdict # "none" => (verdict = "passed" <=> truth.wild = allowed /\ ~truth.action)

=============================================================================
