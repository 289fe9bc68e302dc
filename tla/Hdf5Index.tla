----------------------------- MODULE Hdf5Index ------------------------------
(***************************************************************************)
(* src/storage/hdf5_index.c: HDF5 files of task results and the SQLite     *)
(* index over them.                                                        *)
(*                                                                         *)
(* A file is named by its task and model.  It is readable (ok) or not, and *)
(* holds datasets, each the number of the call that wrote it.  The index   *)
(* has a row per file and rows for the datasets found when the file was    *)
(* scanned.  A call in progress is the sequence todo of the library calls  *)
(* it still has to make; every one of them is a step of its own, because   *)
(* each SQL statement commits by itself and each HDF5 file is opened and   *)
(* closed again for every dataset.  HDF5 and SQLite are external: a        *)
(* statement is atomic, an HDF5 file open for writing when the process     *)
(* dies may be unreadable afterwards.                                      *)
(***************************************************************************)
EXTENDS Integers, SequencesExt, FiniteSetsExt

CONSTANTS ResultFile,          \* the files: pairs of task id, 0 a task like any
                               \* other, and model id
          SignBit,             \* ids from here on are stored as negative numbers:
                               \* 2^63 for tasks, 2^31 for models
          UserData,            \* datasets that are written directly
          MaxWork,             \* bound on the calls that write files and the files they
                               \* write, together
          MaxRows,             \* bound on the row ids up to which files are added
          MaxLapses            \* bound on the crashes and failures

ASSUME H5Assumption ==
  /\ ResultFile \subseteq Nat \X (Nat \ {0}) /\ SignBit \in Nat
  /\ \A f \in ResultFile : f[1] < 2 * SignBit /\ f[2] < 2 * SignBit
  /\ MaxWork \in Nat /\ MaxRows \in Nat /\ MaxLapses \in Nat

VARIABLES db, idx,   \* the index exists; the process has it open
          h5,        \* path |-> [ok, data]
          rows,      \* table files: path |-> [id, task, model, size]
          dsets,     \* table datasets: <<file id, name>>
          nextId,    \* AUTOINCREMENT of files
          job,       \* the call in progress
          open,      \* its file is open for writing
          good,      \* path |-> what a store that could create the file put there
          stale,     \* files created again since their row was written
          calls, lapses

h5Vars == <<db, idx, h5, rows, dsets, nextId, job, open, good, stale, calls, lapses>>

CommonDatasets == <<"input", "output", "state", "checkpoint", "metadata">>

NoJob == [op |-> "none", path |-> <<>>, todo |-> <<>>, refused |-> FALSE, indexed |-> FALSE]

H5Init ==
  /\ db = FALSE /\ idx = FALSE
  /\ h5 = <<>> /\ rows = <<>> /\ dsets = {} /\ nextId = 1
  /\ job = NoJob /\ open = FALSE
  /\ good = <<>> /\ stale = {} /\ calls = 0 /\ lapses = 0

H5Idle == job.op = "none"
Ext(f, x, v) == [y \in DOMAIN f \cup {x} |-> IF y = x THEN v ELSE f[y]]

-----------------------------------------------------------------------------
(* sqlite3_bind_int64 of the task id, bind_int of the model id: signed. *)
Stored(id) == IF id < SignBit THEN id ELSE id - 2 * SignBit

(* Reading the index: the rows a query may return, in any order.  The ids of
   the query are printed into the statement as unsigned numbers. *)
RowMatches(p, q) ==
  /\ q.task > 0 => rows[p].task = q.task
  /\ q.model > 0 => rows[p].model = q.model

hdf5_index_query(q, max_results) ==
  LET found == {p \in DOMAIN rows : RowMatches(p, q)} IN
  {R \in SUBSET found : Cardinality(R) = Min({max_results, Cardinality(found)})}

(* Mutant of hdf5_index_get_by_task: the limit is applied before the filter. *)
get_by_task_limited(t) ==
  {p \in UNION hdf5_index_query([task |-> 0, model |-> 0], 1) :
     rows[p].task = t /\ Cardinality(DOMAIN rows) = 1}

(* The files it may return; the empty set is HDF5_ERR_NOT_FOUND. *)
hdf5_index_get_by_task(t) == UNION hdf5_index_query([task |-> t, model |-> 0], 1)

hdf5_index_get_stats ==
  [total_files |-> Cardinality(DOMAIN rows),
   total_size |-> MapThenSumSet(LAMBDA p : rows[p].size, DOMAIN rows),
   unique_models |-> Cardinality({rows[p].model : p \in DOMAIN rows})]

hdf5_read_dataset(p, name) ==
  IF p \notin DOMAIN h5 \/ ~h5[p].ok THEN "HDF5"
  ELSE IF name \notin DOMAIN h5[p].data THEN "NOT_FOUND" ELSE h5[p].data[name]

-----------------------------------------------------------------------------
(* hdf5_index_open also creates the schema, whose statements do nothing    *)
(* when the tables are there.                                              *)
hdf5_index_open(create) ==
  /\ ~idx /\ (db \/ create) /\ H5Idle
  /\ db' = TRUE /\ idx' = TRUE
  /\ UNCHANGED <<h5, rows, dsets, nextId, job, open, good, stale, calls, lapses>>

hdf5_index_close ==
  /\ idx /\ H5Idle
  /\ idx' = FALSE
  /\ UNCHANGED <<db, h5, rows, dsets, nextId, job, open, good, stale, calls, lapses>>

Begin(op, p, todo) ==
  /\ H5Idle /\ calls + Cardinality(DOMAIN h5 \cup {p}) < MaxWork
  /\ calls' = calls + 1
  /\ job' = [NoJob EXCEPT !.op = op, !.path = p, !.todo = todo]
  /\ UNCHANGED <<db, idx, h5, rows, dsets, nextId, open, good, stale, lapses>>

(* hdf5_create_task_file; the caller may have no index. *)
CreateSteps == <<<<"create">>>> \o (IF idx THEN <<<<"index">>>> ELSE <<>>)

hdf5_create_task_file(p) == Begin("create", p, CreateSteps)

(* hdf5_store_task_result; the caller may have no input or no output (with
   neither, it does what hdf5_create_task_file does). *)
hdf5_store_task_result(p, given) ==
  LET data == SelectSeq(<<"/input/data", "/output/data">>, LAMBDA d : d \in given) IN
  Begin("store", p, CreateSteps \o [i \in DOMAIN data |-> <<"write", data[i]>>])

hdf5_index_add_file(p) ==
  /\ idx /\ H5Idle /\ nextId <= MaxRows
  /\ job' = [NoJob EXCEPT !.op = "add", !.path = p, !.todo = <<<<"index">>>>]
  /\ UNCHANGED <<db, idx, h5, rows, dsets, nextId, open, good, stale, calls, lapses>>

hdf5_write_dataset(p, name) == Begin("write", p, <<<<"write", name>>>>)

-----------------------------------------------------------------------------
Doing(what) == job.todo # <<>> /\ Head(job.todo)[1] = what
Rest == Tail(job.todo)
StepDone(todo) == job' = [job EXCEPT !.todo = todo]
Lapse == lapses < MaxLapses /\ lapses' = lapses + 1
File == h5[job.path]

(* H5Fcreate with H5F_ACC_TRUNC: what the file held is gone. *)
CreateOpen ==
  /\ Doing("create") /\ ~open
  /\ h5' = Ext(h5, job.path, [ok |-> FALSE, data |-> <<>>])
  /\ open' = TRUE
  /\ good' = [p \in DOMAIN good \ {job.path} |-> good[p]]
  /\ stale' = stale \cup ({job.path} \cap DOMAIN rows)
  /\ UNCHANGED <<db, idx, rows, dsets, nextId, job, calls, lapses>>

(* No directory or no file: an error, and nothing else is done. *)
CreateFails ==
  /\ Doing("create") /\ ~open
  /\ Lapse /\ job' = [job EXCEPT !.todo = <<>>, !.refused = TRUE]
  /\ UNCHANGED <<db, idx, h5, rows, dsets, nextId, open, good, stale, calls>>

(* H5Fclose; when it fails nobody notices and the file is not readable. *)
CreateClose ==
  /\ Doing("create") /\ open
  /\ open' = FALSE
  /\ \/ h5' = [h5 EXCEPT ![job.path].ok = TRUE] /\ StepDone(Rest) /\ UNCHANGED lapses
     \/ Lapse /\ StepDone(Rest) /\ UNCHANGED h5
  /\ UNCHANGED <<db, idx, rows, dsets, nextId, good, stale, calls>>

(* scan_hdf5_file looks for five names, as datasets in the root group. *)
scan_hdf5_file(p) ==
  SelectSeq(CommonDatasets, LAMBDA name : name \in DOMAIN h5[p].data)

CanScan == job.path \in DOMAIN h5 /\ File.ok
NewRows == Ext(rows, job.path, [id |-> nextId, task |-> Stored(job.path[1]),
                               model |-> Stored(job.path[2]),
                               size |-> Cardinality(DOMAIN File.data)])

DatasetSteps ==
  LET found == scan_hdf5_file(job.path) IN
  [i \in DOMAIN found |-> <<"dataset", found[i]>>] \o Rest

(* Mutant of InsertFile: foreign keys are not enforced. *)
InsertFileNoCascade ==
  /\ Doing("index") /\ CanScan
  /\ rows' = NewRows /\ nextId' = nextId + 1
  /\ stale' = stale \ {job.path}
  /\ job' = [job EXCEPT !.indexed = TRUE, !.todo = DatasetSteps]
  /\ UNCHANGED <<db, idx, h5, dsets, open, good, calls, lapses>>

(***************************************************************************)
(* The scan and INSERT OR REPLACE INTO files: a row of the same path goes, *)
(* and its dataset rows with it (ON DELETE CASCADE).                       *)
(***************************************************************************)
InsertFile ==
  /\ Doing("index") /\ CanScan
  /\ rows' = NewRows /\ nextId' = nextId + 1
  /\ dsets' = {d \in dsets : job.path \in DOMAIN rows => d[1] # rows[job.path].id}
  /\ stale' = stale \ {job.path}
  /\ job' = [job EXCEPT !.indexed = TRUE, !.todo = DatasetSteps]
  /\ UNCHANGED <<db, idx, h5, open, good, calls, lapses>>

(* The file cannot be scanned, or the statement fails; the result is ignored. *)
InsertFileFails ==
  /\ Doing("index") /\ StepDone(Rest)
  /\ \/ ~CanScan /\ UNCHANGED lapses
     \/ CanScan /\ Lapse
  /\ UNCHANGED <<db, idx, h5, rows, dsets, nextId, open, good, stale, calls>>

(* INSERT INTO datasets, whose result is not looked at. *)
InsertDataset ==
  /\ Doing("dataset") /\ StepDone(Rest)
  /\ \/ /\ dsets' = dsets \cup {<<rows[job.path].id, Head(job.todo)[2]>>}
        /\ UNCHANGED lapses
     \/ Lapse /\ UNCHANGED dsets
  /\ UNCHANGED <<db, idx, h5, rows, nextId, open, good, stale, calls>>

Written == Head(job.todo)[2]

(* H5Fopen and H5Dcreate2, which needs the name to be free. *)
WriteOpen ==
  /\ Doing("write") /\ ~open /\ CanScan /\ Written \notin DOMAIN File.data
  /\ open' = TRUE
  /\ UNCHANGED <<db, idx, h5, rows, dsets, nextId, job, good, stale, calls, lapses>>

WriteRefused ==
  /\ Doing("write") /\ ~open /\ (CanScan => Written \in DOMAIN File.data)
  /\ StepDone(Rest)
  /\ UNCHANGED <<db, idx, h5, rows, dsets, nextId, open, good, stale, calls, lapses>>

Added(value) == [File EXCEPT !.data = Ext(@, Written, value)]

(* H5Dwrite and H5Fclose; when closing fails nobody notices, and the file,
   whatever it held, may be unreadable or without the dataset. *)
WriteClose ==
  /\ Doing("write") /\ open
  /\ open' = FALSE /\ StepDone(Rest)
  /\ \/ /\ h5' = [h5 EXCEPT ![job.path] = Added(calls)]
        /\ UNCHANGED <<good, lapses>>
     \/ /\ Lapse /\ good' = [p \in DOMAIN good \ {job.path} |-> good[p]]
        /\ \/ h5' = [h5 EXCEPT ![job.path].ok = FALSE]
           \/ UNCHANGED h5
  /\ UNCHANGED <<db, idx, rows, dsets, nextId, stale, calls>>

(* H5Dcreate2 or H5Dwrite fails; after the latter the dataset has no data. *)
WriteFails ==
  /\ Doing("write") /\ open
  /\ Lapse /\ open' = FALSE /\ StepDone(Rest)
  /\ \/ UNCHANGED h5
     \/ h5' = [h5 EXCEPT ![job.path] = Added(0)]
  /\ UNCHANGED <<db, idx, rows, dsets, nextId, good, stale, calls>>

(***************************************************************************)
(* The call returns; store_task_result says HDF5_OK when it could create   *)
(* the file, whatever its writes and the indexing did.  good keeps what    *)
(* was really written.                                                     *)
(***************************************************************************)
WrittenNow == {name \in DOMAIN File.data : File.data[name] = calls}
H5Return ==
  /\ ~H5Idle /\ job.todo = <<>>
  /\ job' = NoJob
  /\ good' = IF job.op = "store" /\ ~job.refused /\ File.ok
             THEN Ext(good, job.path, [data |-> [name \in WrittenNow |-> calls],
                                       indexed |-> job.indexed])
             ELSE good
  /\ UNCHANGED <<db, idx, h5, rows, dsets, nextId, open, stale, calls, lapses>>

-----------------------------------------------------------------------------
DeleteRows(gone) ==
  /\ idx /\ H5Idle /\ gone # {}
  /\ rows' = [p \in DOMAIN rows \ gone |-> rows[p]]
  /\ dsets' = {d \in dsets : \A p \in gone : d[1] # rows[p].id}
  /\ good' = [p \in DOMAIN good |-> [good[p] EXCEPT !.indexed = @ /\ p \notin gone]]
  /\ stale' = stale \ gone
  /\ UNCHANGED <<db, idx, h5, nextId, job, open, calls, lapses>>

hdf5_index_remove_file(p) == DeleteRows({p} \cap DOMAIN rows)

(* DELETE FROM files, and that is all: no file is scanned again. *)
hdf5_index_rebuild == DeleteRows(DOMAIN rows)

(***************************************************************************)
(* The process dies.  A file it had open is as it was, or has the new      *)
(* dataset, or cannot be read; a file being created may be readable and    *)
(* empty.                                                                  *)
(***************************************************************************)
H5Crash ==
  /\ Lapse
  /\ idx' = FALSE /\ job' = NoJob /\ open' = FALSE
  /\ IF open
     THEN /\ \E f \in {[File EXCEPT !.ok = FALSE], [File EXCEPT !.ok = TRUE]}
                      \cup (IF Doing("write") THEN {Added(calls)} ELSE {}) :
               h5' = [h5 EXCEPT ![job.path] = f]
          /\ good' = [p \in DOMAIN good \ {job.path} |-> good[p]]
     ELSE UNCHANGED <<h5, good>>
  /\ UNCHANGED <<db, rows, dsets, nextId, stale, calls>>

H5Step ==
  \/ CreateOpen \/ CreateFails \/ CreateClose
  \/ InsertFile \/ InsertFileFails \/ InsertDataset
  \/ WriteOpen \/ WriteRefused \/ WriteClose \/ WriteFails
  \/ H5Return

H5Next ==
  \/ \E create \in BOOLEAN : hdf5_index_open(create)
  \/ hdf5_index_close \/ hdf5_index_rebuild
  \/ \E p \in ResultFile :
       \/ hdf5_create_task_file(p) \/ hdf5_index_add_file(p) \/ hdf5_index_remove_file(p)
       \/ \E given \in (SUBSET {"/input/data", "/output/data"}) \ {{}} : hdf5_store_task_result(p, given)
       \/ \E name \in UserData : hdf5_write_dataset(p, name)
  \/ H5Step \/ H5Crash

-----------------------------------------------------------------------------
(***************************************************************************)
(* A dataset that store_task_result wrote reads back as it was stored,     *)
(* also when the other dataset or the indexing failed, and through any     *)
(* later calls, failed writes and crashes, until its task is stored again, *)
(* or a close fails or the process dies with its file open.  A result      *)
(* whose file was indexed, and not removed nor dropped by a rebuild, which *)
(* scans nothing, is found too: get_by_task returns a file of the task     *)
(* asked for, a query by model returns this file and none of another       *)
(* model, and the statistics count it.  Task 0 stands for any task, and an *)
(* id with its sign bit set, which is stored negative, is never found      *)
(* (store_task_result, read_dataset, get_by_task, query, get_stats).       *)
(***************************************************************************)
ResultFound ==
  LET listed == {p \in DOMAIN good : good[p].indexed}
      ofModel(m) == hdf5_index_query([task |-> 0, model |-> m], Cardinality(ResultFile))
  IN
  /\ \A p \in DOMAIN good : \A name \in DOMAIN good[p].data :
       ~(open /\ job.path = p) => hdf5_read_dataset(p, name) = good[p].data[name]
  /\ \A p \in listed :
       /\ p[1] < SignBit => hdf5_index_get_by_task(p[1]) # {}
       /\ p[1] # 0 => \A f \in hdf5_index_get_by_task(p[1]) : f[1] = p[1]
       /\ p[2] < SignBit => \A R \in ofModel(p[2]) : p \in R /\ \A f \in R : f[2] = p[2]
  /\ hdf5_index_get_stats.total_files >= Cardinality(listed)
  /\ hdf5_index_get_stats.unique_models >= Cardinality({p[2] : p \in listed})

(***************************************************************************)
(* Every row of datasets belongs to a row of files, and names a dataset    *)
(* that is in the file, unless the file was created again since the row    *)
(* was written, cutting the index off from what it describes               *)
(* (hdf5_index_add_file, hdf5_create_task_file).                           *)
(***************************************************************************)
DatasetRowsTrue ==
  \A d \in dsets : \E p \in DOMAIN rows :
    rows[p].id = d[1] /\ (p \in stale \/ d[2] \in DOMAIN h5[p].data)
=============================================================================
