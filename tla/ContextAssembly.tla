--------------------------- MODULE ContextAssembly ---------------------------
(***************************************************************************)
(* Assembling a context package (ContextEngine::assemble).  Mandatory      *)
(* sources, a heading and the units of the recent tail and of retrieved    *)
(* evidence, the epoch's objective and, last, untrusted units are taken in *)
(* that order while they fit the post-compaction target; room for the      *)
(* objective is set aside first.  The ledger records every source, with    *)
(* the reason it was left out.  A size stands for a source's token count   *)
(* (its actual count when known, its bytes otherwise).                     *)
(* An input refused as a whole (another contract, a wrong digest) starts no *)
(* assembly.                                                               *)
(***************************************************************************)
EXTENDS Integers, Sequences

CONSTANTS Windows,      \* context windows, in tokens
          TriggerPercent, TargetPercent,
          Sizes,        \* token counts of sources
          HeadingSize,  \* tokens of a heading
          MaxUnits      \* bound: units of each of the two lists

\* ContextEngine::new, and counts are numbers.
BudgetConstants ==
    /\ Windows \subseteq Nat \ {0} /\ Sizes \subseteq Nat /\ HeadingSize \in Nat /\ MaxUnits \in Nat
    /\ TriggerPercent \in 1 .. 100 /\ TargetPercent \in 1 .. (TriggerPercent - 1)

VARIABLES window,    \* the budget's context window
          fixed,     \* tokens of the five leading mandatory sources together
          objective, \* tokens of the epoch objective
          recent, retrieved,  \* the two lists of units
          todo,      \* sources not looked at yet
          total,     \* assembly.total_tokens
          ledger,    \* assembly.ledger
          shown,     \* whether the current section's heading was included
          outcome    \* "assembling", "package", "exceeds" or "invalid"

inputs == <<window, fixed, objective, recent, retrieved>>
contextVars == <<inputs, todo, total, ledger, shown, outcome>>

Units == [trust : {"trusted", "untrusted", "misplaced"}, form : {"text", "tool", "secret"}, size : Sizes]
Lists == UNION {[1 .. n -> Units] : n \in 0 .. MaxUnits}

\* percent_tokens_ceil, percent_tokens_floor
TriggerTokens == (window * TriggerPercent + 99) \div 100
TargetTokens == (window * TargetPercent) \div 100

\* ContextEngine::decide
Decide(tokens) ==
    IF tokens >= window THEN "replace"
    ELSE IF tokens >= TriggerTokens THEN "compact"
    ELSE IF tokens >= TargetTokens THEN "prune"
    ELSE "continue"

\* optional_limit: what is left once the objective has its room
TrustedLimit == TargetTokens - objective

-----------------------------------------------------------------------------
(* The sources and the order in which they are taken                         *)

\* Mutant: untrusted units are taken before retrieved evidence.
BaseUntrustedEarly ==
    [fixed |-> 0, recent |-> 1, untrusted |-> 2 + Len(recent),
     retrieved |-> 3 + 2 * Len(recent) + Len(retrieved),
     objective |-> 4 + 2 * Len(recent) + 2 * Len(retrieved)]

\* the place of each section: its heading, if it has one, and then its units
Base ==
    [fixed |-> 0, recent |-> 1, retrieved |-> 2 + Len(recent),
     objective |-> 3 + Len(recent) + Len(retrieved),
     untrusted |-> 4 + Len(recent) + Len(retrieved)]

Source(at, part, form, list, unit, size) ==
    [at |-> at, part |-> part, form |-> form, list |-> list, unit |-> unit, size |-> size]

Mandatories == { Source(Base.fixed, "fixed", "mandatory", "none", 0, fixed),
                 Source(Base.objective, "objective", "mandatory", "none", 0, objective) }
Sections == {"recent", "retrieved", "untrusted"}
Heading(part) == Source(Base[part], part, "heading", "none", 0, HeadingSize)

\* partition_units: the trusted units of a list make its section, the untrusted
\* ones of both lists, recent before retrieved, the last section
Part(list, u) == IF u.trust = "trusted" THEN list ELSE "untrusted"
Shift(list, u) == IF u.trust # "trusted" /\ list = "retrieved" THEN Len(recent) ELSE 0
UnitSource(list, i, u) ==
    Source(Base[Part(list, u)] + Shift(list, u) + i, Part(list, u), u.form, list, i, u.size)
UnitSources == {UnitSource("recent", i, recent[i]) : i \in DOMAIN recent}
               \cup {UnitSource("retrieved", i, retrieved[i]) : i \in DOMAIN retrieved}

Sources == Mandatories \cup {Heading(p) : p \in Sections} \cup UnitSources

\* text of another section's kind is refused
Misplaced == \/ \E i \in DOMAIN recent : recent[i].trust = "misplaced"
             \/ \E i \in DOMAIN retrieved : retrieved[i].trust = "misplaced"

AssemblyInit ==
    /\ window \in Windows
    /\ fixed \in Sizes /\ objective \in Sizes
    /\ recent \in Lists /\ retrieved \in Lists
    /\ total = 0 /\ ledger = <<>> /\ shown = TRUE
    /\ todo = Sources
    /\ outcome = IF objective > TargetTokens THEN "exceeds"
                 ELSE IF Misplaced THEN "invalid"
                 ELSE "assembling"

-----------------------------------------------------------------------------
Limit(part) == IF part \in {"objective", "untrusted"} THEN TargetTokens ELSE TrustedLimit
Fits(s) == total + s.size <= Limit(s.part)

Takes(s) == outcome = "assembling" /\ s \in todo /\ \A t \in todo : s.at <= t.at

Record(s, included, reason) ==
    /\ ledger' = Append(ledger, [source |-> s, included |-> included, reason |-> reason])
    /\ total' = IF included THEN total + s.size ELSE total
    /\ todo' = todo \ {s}

\* include_mandatory
Mandatory(s) ==
    /\ Takes(s) /\ s.form = "mandatory"
    /\ IF Fits(s) THEN Record(s, TRUE, "none") /\ outcome' = outcome
       ELSE outcome' = "exceeds" /\ UNCHANGED <<ledger, total, todo>>
    /\ UNCHANGED <<inputs, shown>>

\* include_optional for a heading
SectionHeading(s) ==
    /\ Takes(s) /\ s.form = "heading"
    /\ shown' = Fits(s)
    /\ Record(s, Fits(s), IF Fits(s) THEN "none" ELSE "budget")
    /\ UNCHANGED <<inputs, outcome>>

UnitFits(s) == shown /\ Fits(s)

Reason(s) == IF UnitFits(s) THEN "none"
             ELSE IF ~shown THEN "header"
             ELSE IF s.form = "tool" THEN "tool" ELSE "budget"

\* include_unit, omit_unit
Unit(s) ==
    /\ Takes(s) /\ s.form \in {"text", "tool"}
    /\ Record(s, UnitFits(s), Reason(s))
    /\ UNCHANGED <<inputs, shown, outcome>>

\* render_unit: a secret or a control character in any unit ends the assembly
RenderFails(s) ==
    /\ Takes(s) /\ s.form = "secret"
    /\ outcome' = "invalid"
    /\ UNCHANGED <<inputs, todo, total, ledger, shown>>

\* the package is built and validated
Finish ==
    /\ outcome = "assembling" /\ todo = {}
    /\ outcome' = "package"
    /\ UNCHANGED <<inputs, todo, total, ledger, shown>>

AssemblyNext ==
    \/ \E s \in todo : Mandatory(s) \/ SectionHeading(s) \/ Unit(s) \/ RenderFails(s)
    \/ Finish

AssemblySpec == AssemblyInit /\ [][AssemblyNext]_contextVars
-----------------------------------------------------------------------------
Entries == [source : Sources, included : BOOLEAN, reason : {"none", "header", "tool", "budget"}]
ContextTypeOK ==
    /\ window \in Windows /\ fixed \in Sizes /\ objective \in Sizes
    /\ recent \in Lists /\ retrieved \in Lists
    /\ todo \subseteq Sources /\ total \in Nat /\ ledger \in Seq(Entries)
    /\ shown \in BOOLEAN /\ outcome \in {"assembling", "package", "exceeds", "invalid"}

\* Tokens of the entries of l at the places in S.
Tokens(l, S) ==
    LET sum[n \in 0 .. Len(l)] ==
          IF n = 0 THEN 0 ELSE sum[n - 1] + (IF n \in S THEN l[n].source.size ELSE 0)
    IN  sum[Len(l)]

IsUnit(s) == s.form \in {"text", "tool"}
IncludedHeading(k, part) ==
    /\ ledger[k].source.form = "heading" /\ ledger[k].source.part = part /\ ledger[k].included

\* Assembling fails for its size exactly when the mandatory sources alone
\* exceed the target: no optional unit ever pushes one of them out.
OnlyMandatoryExceeds ==
    /\ outcome = "exceeds" => fixed + objective > TargetTokens
    /\ outcome = "package" => fixed + objective <= TargetTokens

\* A package fits the target, its ledger adds up to its total, and observing
\* it does not by itself call for compaction again.
PackageFits ==
    outcome = "package" =>
        /\ total = Tokens(ledger, {k \in DOMAIN ledger : ledger[k].included}) /\ total <= TargetTokens
        /\ Decide(total) \in {"continue", "prune"}

\* What becomes of trusted units does not depend on the untrusted ones: each is
\* included exactly when it fits behind the trusted sources before it.
TrustedFirst ==
    outcome = "package" =>
        \A i \in DOMAIN ledger :
            IsUnit(ledger[i].source) /\ ledger[i].source.part # "untrusted" =>
              (ledger[i].included <=>
                 /\ \E h \in 1 .. (i - 1) : IncludedHeading(h, ledger[i].source.part)
                 /\ Tokens(ledger, {k \in 1 .. (i - 1) : /\ ledger[k].included
                                                         /\ ledger[k].source.part # "untrusted"})
                      + ledger[i].source.size <= TargetTokens - objective)

\* Every source is in the ledger once, and no unit is rendered outside the
\* section that names it.
LedgerComplete ==
    outcome = "package" =>
        /\ \A l \in {"recent", "retrieved"} :
             \A i \in DOMAIN (IF l = "recent" THEN recent ELSE retrieved) :
               \E k \in DOMAIN ledger : \A j \in DOMAIN ledger :
                 j = k <=> (ledger[j].source.list = l /\ ledger[j].source.unit = i)
        /\ \A k \in DOMAIN ledger : ledger[k].included /\ IsUnit(ledger[k].source) =>
             \E h \in 1 .. (k - 1) : IncludedHeading(h, ledger[k].source.part)

\* A package fits its target and adds up; only mandatory sources can exceed it;
\* untrusted units never displace trusted ones; and every source is accounted
\* for once, under its heading (ContextAssembler::assemble).
ContextFits == ContextTypeOK /\ OnlyMandatoryExceeds /\ PackageFits /\ TrustedFirst /\ LedgerComplete
=============================================================================
