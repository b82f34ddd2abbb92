--------------------------- MODULE DatasetExports ----------------------------
(***************************************************************************)
(* The JSONL exports of one dataset (datasets/service.py, export_dataset;  *)
(* datasets/exporters.py): metadata.json, the export file and the row in   *)
(* dataset_exports are written one after the other, on the event loop and  *)
(* without an await.  Files are opened anew, whatever they held.  The      *)
(* process may die, or a write fail, between two steps.                    *)
(*                                                                         *)
(* A sample is what its line says; a file is its set of lines, and the     *)
(* digest of a file is its content.                                        *)
(***************************************************************************)
EXTENDS Naturals, Sequences, FiniteSets

CONSTANTS
    ExportSamples,   \* samples of the dataset
    Lines,           \* what a sample may say
    FileNames,       \* names a request may give, numbers from 1
    MaxExports,      \* bound: export calls
    MaxClock         \* bound: seconds that pass

ASSUME ExportAssumption == MaxExports \in Nat /\ MaxClock \in Nat \ {0} /\ FileNames \subseteq Nat \ {0}

ExportFormats == {"sft_jsonl", "chatml_jsonl", "preference_jsonl"}

VARIABLES
    sampled,    \* the samples: [status, line] of each
    folder,     \* the directory exports: name -> its file; absent names have none
    metadata,   \* metadata.json
    exports,    \* rows of dataset_exports
    export,     \* the call being executed
    exportCalls,      \* export calls so far, the id of a call
    clock       \* seconds

exportVars == <<sampled, folder, metadata, exports, export, exportCalls, clock>>

NoExport == [step |-> "none"]
NoMetadata == [by |-> 0]
Names == {<<"named", n>> : n \in FileNames} \cup {<<"export", t>> : t \in 1..MaxClock}

ExportInit ==
    /\ sampled \in [ExportSamples -> [status : {"approved", "pending"}, line : Lines]]
    /\ folder = [n \in Names |-> [by |-> 0]]
    /\ metadata = NoMetadata
    /\ exports = <<>> /\ export = NoExport
    /\ exportCalls = 0 /\ clock = 1

\* update_sample, reject_sample and remove_sample of DatasetVersions.
Review(s, status, line) ==
    /\ export = NoExport
    /\ sampled' = [sampled EXCEPT ![s] = [status |-> status, line |-> line]]
    /\ UNCHANGED <<folder, metadata, exports, export, exportCalls, clock>>

Second ==
    /\ clock < MaxClock
    /\ clock' = clock + 1
    /\ UNCHANGED <<sampled, folder, metadata, exports, export, exportCalls>>

\* list_samples_for_export: the approved ones, or all but the rejected and
\* the archived.
Chosen(approvedOnly) ==
    {s \in ExportSamples : sampled[s].status \in
        IF approvedOnly THEN {"approved"} ELSE {"pending", "approved", "exported"}}

\* _payload: each format has its own keys.
Payload(s, format) == <<s, format, sampled[s].line>>

\* _safe_file_name: a request without a name gets one of the second it is made in.
NameOf(given) == IF given = 0 THEN <<"export", clock>> ELSE <<"named", given>>

\* export_dataset up to the first file.
BeginExport(format, approvedOnly, given) ==
    /\ export = NoExport /\ exportCalls < MaxExports
    /\ Chosen(approvedOnly) # {}
    /\ exportCalls' = exportCalls + 1
    /\ export' = [step |-> "metadata", id |-> exportCalls + 1, name |-> NameOf(given), format |-> format,
                  lines |-> {Payload(s, format) : s \in Chosen(approvedOnly)}]
    /\ UNCHANGED <<sampled, folder, metadata, exports, clock>>

WriteMetadata ==
    /\ export.step = "metadata"
    /\ metadata' = [by |-> export.id, format |-> export.format, count |-> Cardinality(export.lines)]
    /\ export' = [export EXCEPT !.step = "file"]
    /\ UNCHANGED <<sampled, folder, exports, exportCalls, clock>>

\* The file is opened, and emptied, before its lines are written.
WriteExport ==
    /\ export.step \in {"file", "lines"}
    /\ folder' = [folder EXCEPT ![export.name] =
                    [by |-> export.id, lines |-> IF export.step = "file" THEN {} ELSE export.lines]]
    /\ export' = [export EXCEPT !.step = IF @ = "file" THEN "lines" ELSE "row"]
    /\ UNCHANGED <<sampled, metadata, exports, exportCalls, clock>>

\* (Mutant) The digest is taken before the lines reached the file.
MutInsertExport ==
    /\ export.step = "lines"
    /\ exports' = Append(exports, [id |-> export.id, name |-> export.name, format |-> export.format,
                                   hash |-> folder[export.name].lines, count |-> Cardinality(export.lines)])
    /\ export' = NoExport
    /\ UNCHANGED <<sampled, folder, metadata, exportCalls, clock>>

\* The digest is taken from the file; then create_export.
InsertExport ==
    /\ export.step = "row"
    /\ exports' = Append(exports, [id |-> export.id, name |-> export.name, format |-> export.format,
                                   hash |-> folder[export.name].lines, count |-> Cardinality(export.lines)])
    /\ export' = NoExport
    /\ UNCHANGED <<sampled, folder, metadata, exportCalls, clock>>

BreakExport ==
    /\ export # NoExport
    /\ export' = NoExport
    /\ UNCHANGED <<sampled, folder, metadata, exports, exportCalls, clock>>

ExportNext ==
    \/ \E s \in ExportSamples, status \in {"approved", "rejected"}, line \in Lines : Review(s, status, line)
    \/ \E format \in ExportFormats, approvedOnly \in BOOLEAN, given \in FileNames \cup {0} :
         BeginExport(format, approvedOnly, given)
    \/ Second \/ WriteMetadata \/ WriteExport \/ InsertExport \/ BreakExport

ExportSpec == ExportInit /\ [][ExportNext]_exportVars

-----------------------------------------------------------------------------
(* Properties.                                                             *)

\* The file a row of dataset_exports names is the one its hash and its
\* sample_count were taken from, until a later export opens the same name -
\* one with that name given, or one without a name in the same second.
ExportIsItsFile ==
    \A i \in DOMAIN exports :
      LET row == exports[i]
          file == folder[row.name]
      IN \/ file.by > row.id
         \/ /\ file = [by |-> row.id, lines |-> row.hash]
            /\ row.count = Cardinality(row.hash)
=============================================================================
