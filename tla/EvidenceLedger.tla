---------------------------- MODULE EvidenceLedger ----------------------------
(***************************************************************************)
(* The evidence of a product verification run (scripts/run-m4b-pv.py): the *)
(* cards its commands write, the designations, aggregations and reviews a  *)
(* person adds, and the final verdict computed from the files.             *)
(*                                                                         *)
(* A command is a process that reads files and then creates some, each one *)
(* exclusively; it can die between two of them, and in the middle of one,  *)
(* which stays half written.  Commands follow each other except that one   *)
(* which waits for the listener's verdict does so while others run.        *)
(*  Digests are modelled by what they tell apart: the file they*)
(* are of, unless its bytes are determined by other digests (an aggregate),*)
(* and how often it was edited.  Every command first attests the candidate *)
(* again and stops when it drifted, so that there is one candidate here.   *)
(***************************************************************************)
EXTENDS Naturals, FiniteSets, SequencesExt

CONSTANTS
    Singles,        \* tests of one command, reviewed by a developer
    Heard,          \* the cases of the semantic test, each judged by ear
    WakeCases,      \* the cases that are aggregated into one reviewed result
    MaxReruns, MaxDesignations, MaxMishaps, MaxFinals

Wake == "WAKE"
ReviewedTests == Singles \cup {Wake}
Units == ReviewedTests \cup Heard \cup WakeCases

ASSUME LedgerBounds ==
    /\ {MaxReruns, MaxDesignations, MaxMishaps, MaxFinals} \subseteq Nat
    /\ IsFiniteSet(Heard) /\ Cardinality(WakeCases) > 1

\* A test is of one kind.
ASSUME LedgerUnits ==
    /\ Wake \notin Singles \cup Heard \cup WakeCases
    /\ Singles \cap Heard = {} /\ Singles \cap WakeCases = {} /\ Heard \cap WakeCases = {}

VARIABLES
    torn,           \* the half-written files: <<unit, name>>
    runs,           \* the partitions of each unit; a locator is <<unit, position>>
    designation,    \* the latest of each unit, or None
    reviews,        \* developer-reviews and the status published for each
    heard,          \* what a person really saw or heard, and said of it
    used,           \* how much of the three budgets is used
    final           \* the last pair of manifests

ledger == <<torn, runs, designation, reviews, heard, used, final>>

None == [at |-> <<>>]
NoRows == [c \in {} |-> 0]
NoFinal == [version |-> 0, status |-> "none", published |-> TRUE]

LedgerInit ==
    /\ torn = {} /\ runs = [u \in Units |-> <<>>]
    /\ designation = [u \in Units |-> None] /\ reviews = {} /\ heard = {}
    /\ used = [reruns |-> 0, designations |-> 0, mishaps |-> 0] /\ final = NoFinal

(***************************************************************************)
(* Files.                                                                  *)
(***************************************************************************)
At(n) == runs[n[1]][n[2]]
Locators == UNION {{<<u, k>> : k \in DOMAIN runs[u]} : u \in Units}

\* The public card of a partition, and the private evidence beside it.
Partition(unit, card, script) ==
    [unit |-> unit, card |-> card, script |-> script, verdict |-> "none", waits |-> FALSE,
     rows |-> NoRows, edited |-> 0, capture |-> 0, catalog |-> {}]

Digest(n) ==
    [file |-> IF n[1] = Wake THEN <<>> ELSE n, rows |-> At(n).rows,
     edited |-> At(n).edited]

Cards(unit) == {n \in {<<unit, k>> : k \in DOMAIN runs[unit]} : At(n).card # "none"}

\* The captures whose names every command looks for in all partitions.
Captures(unit) ==
    IF unit \in Heard THEN {"semantic", "capture"}
    ELSE IF unit \in WakeCases THEN {"wake"} ELSE {}

\* _write_json creates a file and then fills it.
Torn(name) == {t \in torn : t[2] = name}
Tears(unit, names) ==
    \E half \in SUBSET names :
        Cardinality(half) < 2 /\ torn' = torn \cup {<<unit, name>> : name \in half}

\* _public_result_cards reads the cards of all tests before it looks whose they are.
Legible(unit) ==
    /\ Torn("result") = {}
    /\ unit \in Heard => Torn("capture") = {}
    /\ <<unit, "designation">> \notin torn

\* _select_exact_attempt: the only card there is, or the one designated if it
\* still is what was designated.
Selected(unit) ==
    IF ~Legible(unit) THEN {}
    ELSE IF designation[unit] = None
    THEN IF Cardinality(Cards(unit)) = 1 THEN Cards(unit) ELSE {}
    ELSE {n \in Cards(unit) : designation[unit] = [at |-> n, card |-> At(n).card,
                                                   digest |-> Digest(n)]}
Chosen(unit) == CHOOSE n \in Selected(unit) : TRUE

\* The evidence a review of partition n is about.
Parts(n) == {n} \cup {At(n).rows[c].at : c \in DOMAIN At(n).rows}
Contents(n) == {<<k, Digest(k), At(k).capture>> : k \in Parts(n)}

\* Mutant: the catalog is believed without reading the evidence again.
VerifiedByCard(n) == At(n).catalog # {} /\ <<n, Digest(n), 0>> \in At(n).catalog

\* _verify_inspection_catalog
Verified(n) ==
    /\ At(n).catalog # {} /\ At(n).catalog = Contents(n)
    /\ n[1] = Wake => Torn("wake") = {}
    /\ \A c \in DOMAIN At(n).rows :
          Digest(At(n).rows[c].at) = At(n).rows[c].digest

(***************************************************************************)
(* The commands that produce evidence.  A failure after a card was written *)
(* leaves that card: the failure card cannot replace it.                   *)
(***************************************************************************)
Spend(what, most) == used[what] < most /\ used' = [used EXCEPT ![what] = @ + 1]

Add(partition) ==
    /\ runs' = [runs EXCEPT ![partition.unit] = Append(@, partition)]
    /\ IF runs[partition.unit] = <<>> THEN UNCHANGED used ELSE Spend("reruns", MaxReruns)
AddMishap(partition) ==
    /\ runs' = [runs EXCEPT ![partition.unit] = Append(@, partition)]
    /\ Spend("mishaps", MaxMishaps)

Catalogue(partition) ==
    LET here == <<partition.unit, Len(runs[partition.unit]) + 1>>
        rows == partition.rows
    IN [partition EXCEPT !.catalog =
           {<<here, [file |-> IF partition.unit = Wake THEN <<>> ELSE here,
                     rows |-> rows, edited |-> 0], 0>>}
           \cup {<<rows[c].at, rows[c].digest, At(rows[c].at).capture>> : c \in DOMAIN rows}]

\* The four single tests (_run_att, _run_conv, _run_mem, _run_time) end alike: a
\* card and its catalog; a card whose catalog could not be written; the card of a
\* failure, which may be that of a write; or, killed, no card or half of one.
Completes(test) == Add(Catalogue(Partition(test, "result", "Pass"))) /\ UNCHANGED torn
Uncatalogued(test) == AddMishap(Partition(test, "result", "Pass")) /\ UNCHANGED torn
Fails(test) ==
    AddMishap(Partition(test, "result", "Incomplete")) /\ Tears(test, Captures(test))
Dies(test) ==
    /\ AddMishap(Partition(test, "none", "Incomplete"))
    /\ Tears(test, Captures(test) \cup {"result"})

RunSingle(test) ==
    /\ Completes(test) \/ Uncatalogued(test) \/ Fails(test) \/ Dies(test)
    /\ UNCHANGED <<designation, reviews, heard, final>>

\* The cases of WAKE and of RESOURCE have a card and no catalog.
CaseCompletes(c) == Add(Partition(c, "result", "Pass")) /\ UNCHANGED torn
RunWakeCase(c) ==
    /\ CaseCompletes(c) \/ Fails(c) \/ Dies(c)
    /\ UNCHANGED <<designation, reviews, heard, final>>

\* The captured card is out when the question is asked.
RunSemanticCase(c) ==
    /\ \/ /\ Add([Partition(c, "capture", "Pass") EXCEPT !.waits = TRUE])
          /\ UNCHANGED torn
       \/ Fails(c) \/ Dies(c)
    /\ UNCHANGED <<designation, reviews, heard, final>>

\* The listener answers, does not, or the command is killed at the question or in
\* the middle of the card of the answer.
HearVerdict(n) ==
    /\ At(n).waits
    /\ \/ \E said \in {"Pass", "Fail"} :
             /\ runs' = [runs EXCEPT ![n[1]][n[2]] =
                            [@ EXCEPT !.waits = FALSE, !.card = "result", !.verdict = said]]
             /\ heard' = heard \cup {[test |-> n[1], at |-> n, said |-> said,
                                      contents |-> {0}]}
             /\ UNCHANGED <<torn, used>>
       \/ /\ runs' = [runs EXCEPT ![n[1]][n[2]] =
                         [@ EXCEPT !.waits = FALSE, !.card = "result", !.script = "Incomplete"]]
          /\ Spend("mishaps", MaxMishaps) /\ UNCHANGED <<torn, heard>>
       \/ /\ runs' = [runs EXCEPT ![n[1]][n[2]].waits = FALSE]
          /\ Spend("mishaps", MaxMishaps) /\ Tears(n[1], {"result"}) /\ UNCHANGED heard
    /\ UNCHANGED <<designation, reviews, final>>

\* _run_aggregate_cases
Aggregate ==
    /\ \A c \in WakeCases : Selected(c) # {} /\ At(Chosen(c)).script = "Pass"
    /\ Torn("wake") = {}
    /\ LET rows == [c \in WakeCases |-> [at |-> Chosen(c), digest |-> Digest(Chosen(c))]]
           result == [Partition(Wake, "result", "Pass") EXCEPT !.rows = rows]
       IN \/ (Add(Catalogue(result)) \/ AddMishap(result)) /\ UNCHANGED torn
          \/ Dies(Wake)
    /\ UNCHANGED <<designation, reviews, heard, final>>

(***************************************************************************)
(* The person's commands.                                                  *)
(***************************************************************************)
\* A killed one leaves a directory without a file, or half a file, which stands
\* until the unit is designated again.
Designate(n) ==
    /\ At(n).card # "none" /\ Spend("designations", MaxDesignations)
    /\ designation' = [designation EXCEPT ![n[1]] =
                          [at |-> n, card |-> At(n).card, digest |-> Digest(n)]]
    /\ torn' = torn \ {<<n[1], "designation">>}
    /\ UNCHANGED <<runs, reviews, heard, final>>
DesignateDies(n) ==
    /\ At(n).card # "none" /\ Spend("mishaps", MaxMishaps)
    /\ torn' = torn \cup {<<n[1], "designation">>}
    /\ UNCHANGED <<runs, designation, reviews, heard, final>>

Recorded(test, n) == {r \in reviews : r.test = test /\ r.digest = Digest(n)}

\* _run_developer_review; the record is private, its status public.  Half a record
\* counts as one without its status: it is there, and says nothing.
Review(test) ==
    /\ Selected(test) # {} /\ At(Chosen(test)).script = "Pass"
    /\ Verified(Chosen(test)) /\ Recorded(test, Chosen(test)) = {}
    /\ \E said \in {"Pass", "Fail"}, published \in BOOLEAN :
          /\ reviews' = reviews \cup {[test |-> test, digest |-> Digest(Chosen(test)),
                                       at |-> Chosen(test), said |-> said,
                                       published |-> published]}
          /\ IF published THEN UNCHANGED used ELSE Spend("mishaps", MaxMishaps)
          /\ heard' = IF published
                      THEN heard \cup {[test |-> test, at |-> Chosen(test), said |-> said,
                                        contents |-> Contents(Chosen(test))]}
                      ELSE heard
    /\ UNCHANGED <<torn, runs, designation, final>>

\* Evidence changes on the disk: a card, in its digest and in what it says, or a
\* capture, of which only the digest counts.  The file may be no document after it.
Edit(n) ==
    /\ Spend("mishaps", MaxMishaps)
    /\ \/ /\ At(n).card # "none" /\ ~At(n).waits
          /\ \E script \in {"Pass", "Incomplete"},
                verdict \in IF n[1] \in Heard /\ At(n).card = "result"
                            THEN {"none", "Pass", "Fail"} ELSE {At(n).verdict} :
                runs' = [runs EXCEPT ![n[1]][n[2]] =
                            [@ EXCEPT !.edited = At(n).edited + 1,
                                      !.script = script, !.verdict = verdict]]
          /\ Tears(n[1], {At(n).card})
       \/ /\ runs' = [runs EXCEPT ![n[1]][n[2]].capture = @ + 1]
          /\ Tears(n[1], Captures(n[1]) \ {"capture"})
    /\ UNCHANGED <<designation, reviews, heard, final>>

(***************************************************************************)
(* finalize                                                                *)
(***************************************************************************)
\* Mutant: what the aggregate was made of is not compared with the selection.
AggregateIsThere == Selected(Wake) # {}

\* Mutant: it is compared with the newest partition of each case.
AggregateIsNewest ==
    /\ Selected(Wake) # {}
    /\ \A c \in WakeCases :
          Selected(c) # {} /\ At(Chosen(Wake)).rows[c].at = <<c, Len(runs[c])>>

AggregateIsCurrent ==
    /\ Selected(Wake) # {}
    /\ \A c \in WakeCases :
          Selected(c) # {} /\ At(Chosen(Wake)).rows[c] = [at |-> Chosen(c),
                                                            digest |-> Digest(Chosen(c))]

\* Without an aggregate the cases' own cards are merged; those that passed share
\* names of assertions, which the command takes for a corrupt card.
Raises ==
    /\ ~AggregateIsCurrent
    /\ \A c \in WakeCases : Selected(c) # {}
    /\ Cardinality({c \in WakeCases : At(Chosen(c)).script = "Pass"}) > 1

Reviewed(test) ==
    LET n == Chosen(test) IN
    IF Selected(test) = {} \/ (test = Wake /\ ~AggregateIsCurrent) THEN "Incomplete"
    ELSE IF At(n).script # "Pass" THEN At(n).script
    ELSE IF Recorded(test, n) = {} THEN "NeedsDeveloperReview"
    ELSE LET r == CHOOSE x \in Recorded(test, n) : TRUE IN
         IF r.at = n /\ Verified(n) /\ r.published THEN r.said ELSE "Incomplete"

\* The capture of a case is the one that was heard, and can be found among all.
Bound(c) == At(Chosen(c)).capture = 0 /\ Torn("semantic") = {}

\* The state of the semantic test after one more case: its verdict as the card has it.
AfterCase(state, c) ==
    LET run == At(Chosen(c)) IN
    IF run.card = "result" /\ run.verdict # "none"
    THEN IF ~Bound(c) THEN "Incomplete" ELSE IF run.verdict = "Fail" THEN "Fail" ELSE state
    ELSE IF run.card = "capture" /\ Bound(c) /\ state \notin {"Fail", "Incomplete"}
         THEN "NeedsHumanReview"
    ELSE IF state = "Fail" THEN state ELSE "Incomplete"

Listened ==
    IF \E c \in Heard : Selected(c) = {} \/ At(Chosen(c)).script # "Pass" THEN "Incomplete"
    ELSE FoldLeft(AfterCase, "Pass", SetToSeq(Heard))

States == {Reviewed(test) : test \in ReviewedTests} \cup {Listened}
Worst == <<"Fail", "Incomplete", "NeedsHumanReview", "NeedsDeveloperReview", "Pass">>
Status == Worst[CHOOSE i \in DOMAIN Worst :
                   Worst[i] \in States /\ \A j \in 1..(i - 1) : Worst[j] \notin States]

\* A version is taken by either of its two files.
Finalize ==
    /\ ~Raises
    /\ \E published \in BOOLEAN :
          final' = [version |-> final.version + 1, status |-> Status, published |-> published]
    /\ UNCHANGED <<torn, runs, designation, reviews, heard, used>>

Produce ==
    \/ \E test \in Singles : RunSingle(test)
    \/ \E c \in WakeCases : RunWakeCase(c)
    \/ \E c \in Heard : RunSemanticCase(c)
    \/ \E n \in Locators : HearVerdict(n)
    \/ Aggregate
Judge ==
    \/ \E n \in Locators : Designate(n) \/ DesignateDies(n) \/ Edit(n)
    \/ \E test \in ReviewedTests : Review(test)

\* Nothing reads the manifests: after the last of MaxFinals nothing is of interest.
Going == final.version < MaxFinals

LedgerNext == (Going /\ Produce) \/ (Going /\ Judge) \/ (Going /\ Finalize)
LedgerSpec == LedgerInit /\ [][LedgerNext]_ledger

(***************************************************************************)
(* Correctness.                                                            *)
(***************************************************************************)
\* The card a unit's result stands on: the one designated last, or the only one.
Standing(unit) == IF designation[unit] = None THEN Cards(unit) ELSE {designation[unit].at}

\* A person said it of what stands now, and it has not changed since.
SaidOf(test, said) ==
    \E h \in heard :
        /\ h.test = test /\ h.said = said /\ Standing(test) = {h.at}
        /\ h.contents = IF test \in Heard THEN {At(h.at).capture} ELSE Contents(h.at)

Unchanged(unit) ==
    \A n \in Standing(unit) :
        designation[unit] = None \/ designation[unit] = [at |-> n, card |-> At(n).card,
                                                         digest |-> Digest(n)]

WakeIsWhole ==
    \A n \in Standing(Wake), c \in WakeCases :
        c \in DOMAIN At(n).rows /\ Standing(c) = {At(n).rows[c].at}

\* Nothing repeats the verdict that a semantic case's card holds: a card that was
\* edited counts as it is written, on the capture that was heard.
TakenAsWritten(c) == \E n \in Standing(c) : At(n).edited > 0 /\ At(n).capture = 0

\* What a selection of the unit reads is whole, and is what was designated.
Stands(unit) ==
    /\ Unchanged(unit) /\ Legible(unit)
    /\ \A name \in Captures(unit) : Torn(name) = {}

\* A final verdict is Pass only when a person passed every result that stands
\* at that moment, on evidence that is still what was shown, the aggregate
\* being made of the cases that stand: whatever was rerun, designated, edited
\* or interrupted on the way.  The verdict of a semantic case that was edited in
\* its card is the exception.
FinalPassIsEarned ==
    [][final' # final /\ final'.status = "Pass" =>
          /\ \A test \in ReviewedTests : SaidOf(test, "Pass")
          /\ \A c \in Heard : SaidOf(c, "Pass") \/ TakenAsWritten(c)
          /\ WakeIsWhole]_ledger

\* And a complete record counts: the verdict of a test that a person judged, on
\* evidence that stands unchanged, is what was said, as long as every file that the
\* selection reads is whole: half a result card of any test takes them all.
JudgedIsFinal ==
    /\ \A test \in ReviewedTests, said \in {"Pass", "Fail"} :
          SaidOf(test, said) /\ Stands(test)
          /\ (test = Wake => WakeIsWhole /\ \A c \in WakeCases : Stands(c))
             => Reviewed(test) = said
    /\ (\A c \in Heard : SaidOf(c, "Pass") /\ Stands(c) /\ ~TakenAsWritten(c))
          => Listened = "Pass"

===============================================================================
