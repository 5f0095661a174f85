------------------------------ MODULE BadCases ------------------------------
(***************************************************************************)
(* Bad cases of the evaluation (src/axiom/evaluation/badcases.py): failed  *)
(* trials are collected into a local store, reviewed, and promoted into a  *)
(* regression dataset.  Each command of the command line is a process; the *)
(* store and each dataset are JSON files, read whole and replaced whole.   *)
(* A promotion replaces two files, and the process may end between them.   *)
(***************************************************************************)
EXTENDS Integers, Sequences, FiniteSets, SequencesExt

CONSTANTS BadCase,          \* the identities of failed trials (_from_result)
          Dataset,          \* the files a case may be promoted into
          Process, NoCase,
          OneAtATime,       \* the commands of one user, one after the other
          MaxCommands       \* bound

Record == [status : {"PENDING", "APPROVED", "IGNORED", "PROMOTED"}, promoted : Dataset \cup {NoCase}]

ASSUME BadCaseAssumption == NoCase \notin Record

VARIABLES file,      \* the store: the record of each bad case, or NoCase
          datasets,  \* the cases of each dataset: the id and its source
          command,   \* of each process: what it does, and what it has read
          commands

badCaseVars == <<file, datasets, command, commands>>

CaseId(b) == <<"regression", b>>
NoCommand == [name |-> "none", at |-> "idle", badcase |-> NoCase, target |-> NoCase,
              record |-> NoCase, records |-> [b \in {} |-> NoCase], cases |-> <<>>]

BadCasesInit ==
    /\ file = [b \in BadCase |-> NoCase]
    /\ datasets = [d \in Dataset |-> <<>>]
    /\ command = [p \in Process |-> NoCommand] /\ commands = 0

NewRecord == [status |-> "PENDING", promoted |-> NoCase]
Running(p) == command[p].at # "idle"
Over(p) == command' = [command EXCEPT ![p] = NoCommand]
Goes(p, at) == [command[p] EXCEPT !.at = at]

\* collect, approve, ignore, promote: the record is read first.
StartCommand(p, name, b, d) ==
    /\ ~Running(p) /\ commands < MaxCommands /\ commands' = commands + 1
    /\ OneAtATime => \A q \in Process : ~Running(q)
    /\ command' = [command EXCEPT ![p] = [NoCommand EXCEPT !.name = name, !.at = "read", !.badcase = b,
                                                           !.target = d, !.record = file[b]]]
    /\ UNCHANGED <<file, datasets>>

Writes(p, record) ==
    command' = [command EXCEPT ![p] = [Goes(p, "load") EXCEPT !.record = record]]

(***************************************************************************)
(* What the record that was read allows.                                   *)
(***************************************************************************)

\* The record that is there stays, whatever became of it.
Save(p) ==
    LET record == command[p].record IN IF record = NoCase THEN Writes(p, NewRecord) ELSE Over(p)

Collect(p) ==
    /\ command[p].at = "read" /\ command[p].name = "collect" /\ Save(p)
    /\ UNCHANGED <<file, datasets, commands>>

Allowed(status) == CASE status = "PENDING" -> {"APPROVED", "IGNORED"}
                     [] status = "APPROVED" -> {"IGNORED"}
                     [] status = "IGNORED" -> {"APPROVED"}
                     [] status = "PROMOTED" -> {}

\* The same status again is written when it comes with another note.
UpdateReviewStatus(p, status) ==
    /\ command[p].at = "read" /\ command[p].name = status
    /\ LET record == command[p].record
       IN IF record # NoCase /\ status \in Allowed(record.status) \cup {record.status}
          THEN Writes(p, [record EXCEPT !.status = status]) \/ (record.status = status /\ Over(p))
          ELSE Over(p)
    /\ UNCHANGED <<file, datasets, commands>>

Promote(p) ==
    /\ command[p].at = "read" /\ command[p].name = "promote"
    /\ LET record == command[p].record
       IN IF record # NoCase /\ record.status = "APPROVED"
          THEN command' = [command EXCEPT ![p] = [Goes(p, "append") EXCEPT !.cases = datasets[command[p].target]]]
          ELSE Over(p)
    /\ UNCHANGED <<file, datasets, commands>>

(***************************************************************************)
(* The dataset, then the record.                                           *)
(***************************************************************************)
NewCase(p) == [id |-> CaseId(command[p].badcase), source |-> command[p].badcase]

\* mutant: the dataset is written anew
OnlyNewCase(p) == <<NewCase(p)>>

\* A case of an earlier promotion that stopped is kept as it is.
WithCase(p) ==
    LET cases == command[p].cases
    IN IF \E i \in DOMAIN cases : cases[i].id = CaseId(command[p].badcase) THEN cases
       ELSE Append(cases, NewCase(p))

SaveDataset(p) ==
    /\ command[p].at = "append"
    /\ datasets' = [datasets EXCEPT ![command[p].target] = WithCase(p)]
    /\ command' = [command EXCEPT ![p] = Goes(p, "mark")]
    /\ UNCHANGED <<file, commands>>

\* The record is read again.
MarkPromoted(p) ==
    /\ command[p].at = "mark"
    /\ LET record == file[command[p].badcase]
       IN IF record # NoCase /\ record.status = "APPROVED"
          THEN Writes(p, [status |-> "PROMOTED", promoted |-> command[p].target])
          ELSE Over(p)
    /\ UNCHANGED <<file, datasets, commands>>

\* _replace and save read the whole file, and write all its records.
LoadRecords(p) ==
    /\ command[p].at = "load"
    /\ command' = [command EXCEPT ![p] = [Goes(p, "write") EXCEPT !.records = file]]
    /\ UNCHANGED <<file, datasets, commands>>

WriteRecords(p) ==
    /\ command[p].at = "write"
    /\ file' = [command[p].records EXCEPT ![command[p].badcase] = command[p].record]
    /\ Over(p) /\ UNCHANGED <<datasets, commands>>

\* A write goes to a temporary file that replaces the other: a process that ends leaves it whole.
EndProcess(p) == Running(p) /\ Over(p) /\ UNCHANGED <<file, datasets, commands>>

BadCasesNext ==
    \E p \in Process :
        \/ Collect(p) \/ UpdateReviewStatus(p, "APPROVED") \/ UpdateReviewStatus(p, "IGNORED") \/ Promote(p)
        \/ SaveDataset(p) \/ MarkPromoted(p) \/ LoadRecords(p) \/ WriteRecords(p) \/ EndProcess(p)
        \/ \E b \in BadCase, d \in Dataset, name \in {"collect", "APPROVED", "IGNORED", "promote"} :
             StartCommand(p, name, b, d)

BadCasesSpec == BadCasesInit /\ [][BadCasesNext]_badCaseVars

(***************************************************************************)
(* What a reviewer relies on.                                              *)
(***************************************************************************)

\* A PROMOTED record has its case in the dataset it names, whatever was promoted
\* after it and wherever a process ended (promote_badcase).
PromotedIsInItsDataset ==
    \A b \in BadCase : file[b] # NoCase /\ file[b].status = "PROMOTED" =>
        \E i \in DOMAIN datasets[file[b].promoted] : datasets[file[b].promoted][i].source = b

\* No dataset holds a case twice, also when the promotion that appended it never
\* marked its record and was repeated (the stable case id).
EachCaseOnce == \A d \in Dataset : IsInjective(datasets[d])

\* A review is never lost: no record returns to PENDING and a PROMOTED one never
\* changes, however often the trial it is about is collected (BadCaseStore.save).
ReviewIsKept ==
    [][\A b \in BadCase : file[b] # NoCase =>
          /\ file'[b] # NoCase /\ (file'[b].status = "PENDING" => file[b].status = "PENDING")
          /\ (file[b].status = "PROMOTED" => file'[b] = file[b])]_badCaseVars

\* A promoted case is in its dataset, there once, and no review is lost (the parts
\* above).
CasesAreKept ==
    /\ [](PromotedIsInItsDataset /\ EachCaseOnce)
    /\ ReviewIsKept
=============================================================================
