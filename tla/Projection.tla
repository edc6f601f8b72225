----------------------------- MODULE Projection -----------------------------
(***************************************************************************)
(* vk-kernel/src/arch.rs: a register lowered into a prompt, a prompt       *)
(* projected into a token budget, an answer raised into the register.      *)
(*                                                                         *)
(* A text is a sequence of lines.  A line has the prefix it starts with    *)
(* (`kind`), its bytes (`len`), and, which the program does not know, the  *)
(* field of the register it was lowered from (`field`).  The register's    *)
(* texts may have many lines, and lower() splits nothing: what rank_of     *)
(* sees of the second line of a goal is whatever that line starts with.  A *)
(* prompt's lines are numbered (`at`), for the properties.                 *)
(***************************************************************************)
EXTENDS Naturals, Sequences, SequencesExt

HeaderLen == 12             \* the line "CONSTRAINTS:", and "ROLE: draft"

Bytes(p, lines) == MapThenSumSet(LAMBDA i : p[i].len + 1, lines)

\* MockAdapter::count_tokens.
Tokens(bytes) == (bytes \div 4) + 1
Count(p) == Tokens(Bytes(p, DOMAIN p))

-----------------------------------------------------------------------------
(* lower *)

\* The lines of a text of the register under the prefix of its field.
Headed(kind, text) ==
    [n \in DOMAIN text |-> [kind |-> IF n = 1 THEN kind ELSE text[n].kind,
                            len |-> text[n].len, field |-> kind]]
Section(kind, texts) == FlattenSeq([n \in DOMAIN texts |-> Headed(kind, texts[n])])
Header(kind) == [kind |-> kind, len |-> HeaderLen, field |-> kind]

Lowered(reg) ==
    <<Header("ROLE")>> \o Headed("GOAL", reg.goal)
    \o (IF reg.constraints = <<>> THEN <<>>
        ELSE <<Header("CONSTRAINTS")>> \o Section("BULLET", reg.constraints))
    \o Section("EVIDENCE", reg.evidence)
    \o Section("DECISION", reg.decisions)
    \o Section("OPEN", reg.open)
Lower(reg) ==
    LET lines == Lowered(reg)
    IN  [n \in DOMAIN lines |-> [at |-> n, kind |-> lines[n].kind,
                                 len |-> lines[n].len, field |-> lines[n].field]]

\* raise: the answer to a judge is an open question, any other a decision.
Raise(reg, role, output) ==
    IF role = "judge" THEN [reg EXCEPT !.open = Append(@, output)]
    ELSE [reg EXCEPT !.decisions = Append(@, output)]

\* MockAdapter::complete: the first 200 characters of the prompt, after the role.
Echo(p) ==
    LET before(n) == Bytes(p, 1..(n - 1))
        shown == {n \in DOMAIN p : before(n) < 200}
        cut(n) == IF p[n].len + before(n) > 200 THEN 200 - before(n) ELSE p[n].len
        as(n) == IF p[n].kind = "MARKER" THEN "PLAIN" ELSE p[n].kind
    IN  [n \in shown |-> [kind |-> as(n), len |-> cut(n)]]

-----------------------------------------------------------------------------
(* project *)

Rank == [ROLE |-> 0, GOAL |-> 0, DECISION |-> 1, CONSTRAINTS |-> 2, OPEN |-> 3,
         EVIDENCE |-> 4, BULLET |-> 5, PLAIN |-> 5]

\* Line n is one of the `- ` lines right under a `CONSTRAINTS:` line.
Owned(p, n) ==
    \E h \in 1..(n - 1) : /\ p[h].kind = "CONSTRAINTS"
                          /\ \A i \in (h + 1)..n : p[i].kind = "BULLET"

\* units_of: a unit is named by its first line.
Units(p) == {n \in DOMAIN p : ~Owned(p, n)}
LinesOf(p, units) ==
    {n \in DOMAIN p : \E u \in units : u <= n /\ \A i \in (u + 1)..n : Owned(p, i)}
RankOf(p, u) == Rank[p[u].kind]
Before(p, u, v) == \/ RankOf(p, u) < RankOf(p, v)
                   \/ RankOf(p, u) = RankOf(p, v) /\ u < v

\* marker: "[PROJECTED: n lines dropped]".
Digits[n \in Nat] == IF n < 10 THEN 1 ELSE 1 + Digits[n \div 10]
Marker(n) == [kind |-> "MARKER", n |-> n, len |-> 27 + Digits[n]]

\* The members of a set of lines, each after those that are before it.
SortedBy(lines, before(_, _)) ==
    [k \in 1..Cardinality(lines) |->
        CHOOSE n \in lines : Cardinality({m \in lines : before(m, n)}) = k - 1]
InPlace(lines) == SortedBy(lines, LAMBDA m, n : m < n)

Essential(p) == {u \in Units(p) : RankOf(p, u) = 0}
Reserved(p) == Marker(Cardinality(DOMAIN p \ LinesOf(p, Essential(p))))

\* Variant of Fits: the marker is not counted.
FitsUnmarked(p, units, budget) == Tokens(Bytes(p, LinesOf(p, units))) <= budget

Fits(p, units, budget) ==
    Tokens(Bytes(p, LinesOf(p, units)) + Reserved(p).len + 1) <= budget

\* Units are admitted by rank, then by place, each only if the result fits.
Admitted(p, budget) ==
    FoldLeft(LAMBDA kept, u : IF Fits(p, kept \cup {u}, budget) THEN kept \cup {u} ELSE kept,
             Essential(p), SortedBy(Units(p) \ Essential(p), LAMBDA u, v : Before(p, u, v)))

Unfit == <<>>               \* None: no honest prompt fits

Dropped(p, kept) == Cardinality(DOMAIN p \ LinesOf(p, kept))

Project(p, budget) ==
    LET kept == Admitted(p, budget)
        lines == InPlace(LinesOf(p, kept))
        n == Dropped(p, kept)
    IN  IF Count(p) <= budget THEN p
        ELSE IF ~Fits(p, Essential(p), budget) THEN Unfit
        ELSE [i \in DOMAIN lines |-> p[lines[i]]] \o (IF n = 0 THEN <<>> ELSE <<Marker(n)>>)
=============================================================================
