---------------------------- MODULE MCBrainStore ----------------------------
(* A session that ends, one that starts, and an ingestion from the command *)
(* line that brings a second version of the content folder.                *)
EXTENDS BrainStore

Row(name, origin, program, version) == [name |-> name, origin |-> origin, program |-> program, approved |-> TRUE, version |-> version]
MCAuthored == <<{Row("find", "authored", 0, 1)}, {Row("find", "authored", 0, 2), Row("pay", "authored", 0, 2)}>>
MCMapped == {{Row("find", "mapped", 1, 1)}, {}}
MCStoreOf == [ends |-> "registry", begins |-> "registry", cli |-> "cli"]
MCKinds == [ends |-> {"finish"}, begins |-> {"start"}, cli |-> {"ingest"}]
=============================================================================
