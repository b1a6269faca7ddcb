------------------------------ MODULE Screening ------------------------------
(***************************************************************************)
(* aml-service's screening of a name against the sanctions lists: an exact *)
(* match of the normalized name, or the best of two similarities to a      *)
(* listed name or alias.  The distance is computed cell by cell in a       *)
(* single row, as the code does.                                           *)
(***************************************************************************)
EXTENDS Naturals, Sequences, FiniteSets, SequencesExt

CONSTANTS
    Fold,      \* symbol -> its base letter; what is no letter or digit has none
    Lists,     \* the listed entities: sequences of names, the aliases after the first
    Settings   \* each a set of names to screen, and no fault

ScreeningAssumption ==
    /\ Lists \in Seq(Seq(Seq(STRING)))
    /\ \A s \in Settings : \A name \in s.names : name \in Seq(STRING)

VARIABLES
    setting,   \* the names to screen; never changes
    name,      \* the name being screened
    pc,        \* "idle", "exact", "fuzzy", "row", "cell", "compare" or "done"
    k,         \* the candidate at hand, an index of Candidates
    i, j,      \* the cell at hand
    dp,        \* the row of the table, 0..Len(b) -> distance
    prev,      \* the cell up left, kept from before it was overwritten
    best,      \* the candidate found so far and its similarity, a fraction
    kind       \* the result: "exact", "fuzzy" or "none"

vars == <<setting, name, pc, k, i, j, dp, prev, best, kind>>

NoBest == [of |-> 0, sim |-> <<0, 1>>]

Idle ==
    /\ name = << >> /\ pc = "idle" /\ k = 0 /\ i = 0 /\ j = 0
    /\ dp = << >> /\ prev = 0 /\ best = NoBest /\ kind = "none"

Init == setting \in Settings /\ Idle

(***************************************************************************)
(* Names.                                                                  *)
(***************************************************************************)
Blank == " "

\* Case and accents go; a run of anything else is one blank, none at either end.
Normalized(s, c) ==
    IF c \in DOMAIN Fold THEN Append(s, Fold[c])
    ELSE IF s = << >> \/ Last(s) = Blank THEN s ELSE Append(s, Blank)

normalizeName(raw) ==
    LET s == FoldLeft(Normalized, << >>, raw)
    IN  IF s # << >> /\ Last(s) = Blank THEN Front(s) ELSE s

Split(words, c) ==
    IF c = Blank THEN Append(words, << >>) ELSE Append(Front(words), Append(Last(words), c))

tokenize(raw) ==
    LET s == normalizeName(raw)
    IN  IF s = << >> THEN << >> ELSE FoldLeft(Split, << << >> >>, s)

Candidates == FoldLeft(\o, << >>, Lists)

\* Fractions.
AtLeast(f, g) == f[1] * g[2] >= g[1] * f[2]
Larger(f, g) == IF AtLeast(f, g) THEN f ELSE g

\* A token of a counts as often as it occurs.
tokenJaccard(a, b) ==
    IF a = << >> \/ b = << >> THEN <<0, 1>>
    ELSE <<Cardinality({x \in DOMAIN a : a[x] \in ToSet(b)}), Cardinality(ToSet(a) \cup ToSet(b))>>

charSimilarity(a, b, distance) ==
    LET longest == IF Len(a) > Len(b) THEN Len(a) ELSE Len(b)
    IN  IF longest = 0 THEN <<1, 1>> ELSE <<longest - distance, longest>>

(***************************************************************************)
(* The screening.                                                          *)
(***************************************************************************)
A == normalizeName(name)
B == normalizeName(Candidates[k])

Screen(raw) ==
    /\ pc = "idle"
    /\ name' = raw /\ pc' = "exact"
    /\ UNCHANGED <<setting, k, i, j, dp, prev, best, kind>>

\* First every entity's name, then every alias: either way exact.
MatchExactly ==
    /\ pc = "exact"
    /\ IF A = << >> THEN pc' = "done" /\ UNCHANGED <<kind, k>>
       ELSE IF \E c \in DOMAIN Candidates : normalizeName(Candidates[c]) = A
         THEN kind' = "exact" /\ pc' = "done" /\ UNCHANGED k
         ELSE pc' = "fuzzy" /\ k' = 1 /\ UNCHANGED kind
    /\ UNCHANGED <<setting, name, i, j, dp, prev, best>>

\* levenshtein begins: the answer if the listed name is empty, or the first row (the
\* other is not empty, and the two differ).
FirstRow ==
    /\ pc = "fuzzy"
    /\ IF k > Len(Candidates)
         THEN /\ pc' = "done" /\ kind' = IF best.of = 0 THEN "none" ELSE "fuzzy"
              /\ UNCHANGED <<i, dp>>
         ELSE /\ i' = 1 /\ UNCHANGED kind
              /\ IF B = << >> THEN dp' = [c \in {0} |-> Len(A)] /\ pc' = "compare"
                 ELSE dp' = [c \in 0..Len(B) |-> c] /\ pc' = "row"
    /\ UNCHANGED <<setting, name, k, j, prev, best>>

NextRow ==
    /\ pc = "row"
    /\ IF i > Len(A) THEN pc' = "compare" /\ UNCHANGED <<j, dp, prev>>
       ELSE prev' = dp[0] /\ dp' = [dp EXCEPT ![0] = i] /\ j' = 1 /\ pc' = "cell"
    /\ UNCHANGED <<setting, name, k, i, best, kind>>

\* Mutant of Kept: the cell is kept after it was overwritten.
KeptLate(before, after) == after

\* tmp: what the next cell finds up left.
Kept(before, after) == before

NextCell ==
    LET cost == IF A[i] = B[j] THEN 0 ELSE 1
        cell == Min({dp[j] + 1, dp[j - 1] + 1, prev + cost})
    IN  /\ pc = "cell"
        /\ dp' = [dp EXCEPT ![j] = cell]
        /\ prev' = Kept(dp[j], cell)
        /\ IF j < Len(B) THEN j' = j + 1 /\ UNCHANGED <<i, pc>>
           ELSE i' = i + 1 /\ pc' = "row" /\ UNCHANGED j
        /\ UNCHANGED <<setting, name, k, best, kind>>

\* The better of the two similarities, if either reaches its threshold.
Compare ==
    LET jac == tokenJaccard(tokenize(name), tokenize(Candidates[k]))
        chr == charSimilarity(A, B, dp[Len(B)])
        sim == Larger(jac, chr)
    IN  /\ pc = "compare"
        /\ best' = IF /\ AtLeast(jac, <<3, 5>>) \/ AtLeast(chr, <<3, 4>>)
                      /\ best.of = 0 \/ ~ AtLeast(best.sim, sim)
                   THEN [of |-> k, sim |-> sim] ELSE best
        /\ k' = k + 1 /\ pc' = "fuzzy"
        /\ UNCHANGED <<setting, name, i, j, dp, prev, kind>>

Answered == pc = "done" /\ UNCHANGED vars

Next ==
    \/ \E raw \in setting.names : Screen(raw)
    \/ MatchExactly \/ FirstRow \/ NextRow \/ NextCell \/ Compare \/ Answered

Spec == Init /\ [][Next]_vars

(***************************************************************************)
(* Properties.                                                             *)
(***************************************************************************)
\* The shape of the result.
TypeOK ==
    /\ kind \in {"none", "fuzzy", "exact"}
    /\ best.of \in 0..Len(Candidates)

\* The distance by its definition: the fewest insertions, deletions, substitutions.
Distance(a, b) ==
    LET d[c \in (0..Len(a)) \X (0..Len(b))] ==
            LET m == c[1]
                n == c[2]
            IN  IF m = 0 THEN n ELSE IF n = 0 THEN m
                ELSE Min({d[<<m - 1, n>>] + 1, d[<<m, n - 1>>] + 1,
                          d[<<m - 1, n - 1>>] + IF a[m] = b[n] THEN 0 ELSE 1})
    IN  d[<<Len(a), Len(b)>>]

\* What the screening must not miss: a listed name or alias a quarter of whose letters
\* at most differ, or three fifths of whose words are shared.  And a hit by letters is
\* one: the row in place computes the distance, no less and no more.
Close(c) ==
    LET b == normalizeName(Candidates[c])
        longest == IF Len(A) > Len(b) THEN Len(A) ELSE Len(b)
        words == [n \in {"a", "b"} |-> ToSet(tokenize(IF n = "a" THEN name ELSE Candidates[c]))]
    IN  \/ 4 * Distance(A, b) <= longest
        \/ 5 * Cardinality(words["a"] \cap words["b"])
             >= 3 * Cardinality(words["a"] \cup words["b"])

NothingMissed ==
    /\ pc = "done" /\ kind = "none" /\ A # << >> =>
         \A c \in DOMAIN Candidates : ~ Close(c)
    /\ pc = "compare" => dp[Len(B)] = Distance(A, B)
=============================================================================
