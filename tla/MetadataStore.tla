--------------------------- MODULE MetadataStore ----------------------------
(***************************************************************************)
(* src/storage/metadata.c: a directory with one file per key.              *)
(*                                                                         *)
(* A key is a sequence of pieces, so that the renaming of sanitise_key is  *)
(* visible.  A file holds an entry, whole or not: a proper prefix of what  *)
(* write_entry_to_file writes always ends inside a field that reading then *)
(* misses, so how long the prefix is makes no difference.  stdio buffers   *)
(* the writes, so the entry becomes whole at any time between fopen, which *)
(* truncates, and fclose.  A call in progress is the sequence todo of the  *)
(* entries it still has to put, the first being written when writing is    *)
(* its file.  The process may crash between any two steps and open the     *)
(* store again.                                                            *)
(***************************************************************************)
EXTENDS Integers, SequencesExt, FiniteSetsExt

CONSTANTS PlainEntry,   \* entries put directly
          InfoTask, ExperimentId,
          MaxRun,       \* bound on the calls that record a task or an experiment
          Faulty,       \* may opens, writes and deletes fail?
          MaxFaults     \* bound on the crashes and failures

ASSUME MetaAssumption ==
  Faulty \in BOOLEAN /\ MaxRun \in Nat /\ MaxFaults \in Nat

VARIABLES dir,      \* the directory exists
          store,    \* the process has the store open
          file,     \* the files: name |-> [entry, whole]
          todo, writing,
          acked,    \* the last entry whose put on a file returned META_OK
          cut,      \* the files whose last put was not written to the end
          halfway,  \* the tasks with a put of theirs cut short or given up
          run,      \* calls that have started
          faults    \* crashes and failures so far

metaVars == <<dir, store, file, todo, writing, acked, cut, halfway, run, faults>>

Types == {"string", "int64", "double", "blob", "timestamp"}
NoData == "blob without data"   \* a blob whose size is not 0 and whose data is NULL
Writable == Types \cup {NoData}
Free == <<>>   \* no file is being written
MaxKeyLen == 6   \* META_MAX_KEY_LEN, in pieces

MetaIdle == store /\ todo = <<>>

(* Separators and parent directories become underscores. *)
sanitise_key(key) ==
  [i \in DOMAIN key |-> IF key[i] \in {"/", "\\"} THEN "_"
                        ELSE IF key[i] = ".." THEN "__" ELSE key[i]]

(* The time of a put is the number of the call it belongs to. *)
Entry(key, type, r, tag) ==
  [key |-> key, type |-> type, value |-> r, tag |-> tag, created |-> r]

TaskKey(id, field) == <<"task.", ToString(id), field>>
InfoFields == <<".model_id", ".status", ".exec_time_us", ".queue_time_us", ".worker_id">>

(* The five put_int64 of task_info; a value stands for the call it is from. *)
TaskEntries(id, r) ==
  [i \in 1..5 |-> Entry(TaskKey(id, InfoFields[i]), "int64", r, "task")]

ExperimentKey(id, field) == <<"experiment.">> \o id \o <<field>>

(* The puts of metadata_store_experiment; config_json may be NULL. *)
ExperimentEntries(id, r, config) ==
  LET put(field) == Entry(ExperimentKey(id, field), "string", r, "experiment")
  IN  <<put(".description"), put(".model")>>
        \o (IF config THEN <<put(".config")>> ELSE <<>>)

Names == {sanitise_key(e.key) : e \in PlainEntry}
  \cup {sanitise_key(TaskKey(id, InfoFields[i])) : id \in InfoTask, i \in 1..5}
  \cup {sanitise_key(ExperimentKey(id, f)) :
          id \in ExperimentId, f \in {".description", ".model", ".config"}}

NoEntry == Entry(<<>>, "none", 0, "none")

MetaInit ==
  /\ dir = FALSE /\ store = FALSE
  /\ file = <<>> /\ todo = <<>> /\ writing = Free
  /\ acked = [n \in Names |-> NoEntry]
  /\ cut = {} /\ halfway = {}
  /\ run = 0 /\ faults = 0

-----------------------------------------------------------------------------
Error(rc) == [rc |-> rc, entry |-> NoEntry]

(***************************************************************************)
(* Reading: a file that is there and complete gives its entry.  Of a blob  *)
(* put without data the file ends behind the size.  The data of a blob is  *)
(* allocated, for which there may be no memory (a blob cut behind its size *)
(* is then IO as well, not CORRUPT; nothing below tells the two apart).    *)
(***************************************************************************)
read_entry(n, memory) ==
  IF n \notin DOMAIN file THEN Error("NOT_FOUND")
  ELSE IF ~file[n].whole \/ file[n].entry.type \notin Writable THEN Error("CORRUPT")
  ELSE IF file[n].entry.type \in {"blob", NoData} /\ ~memory THEN Error("IO")
  ELSE IF file[n].entry.type = NoData THEN Error("CORRUPT")
  ELSE [rc |-> "OK", entry |-> file[n].entry]

metadata_store_get(key, memory) == read_entry(sanitise_key(key), memory)

(* get_string, get_int64 and get_double. *)
metadata_store_get_typed(key, type, memory) ==
  LET got == metadata_store_get(key, memory) IN
  IF got.rc = "OK" /\ got.entry.type # type
  THEN Error("INVALID_ARG") ELSE got

(***************************************************************************)
(* metadata_store_query.  The files are visited in any order until         *)
(* max_results entries match; unreadable ones are passed over.  The type   *)
(* of the query is an unsigned enumeration, so the test type >= 0 always   *)
(* holds and the type is always compared.                                  *)
(***************************************************************************)
Matches(e, q) ==
  /\ IsPrefix(q.prefix, e.key)
  /\ e.type = q.type
  /\ q.tag # "any" => e.tag = q.tag
  /\ q.created_after > 0 => e.created >= q.created_after
  /\ q.created_before > 0 => e.created <= q.created_before

Found(q, memory) ==
  {file[n].entry : n \in {m \in DOMAIN file : /\ read_entry(m, memory).rc = "OK"
                                            /\ Matches(file[m].entry, q)}}

QueryResults(q, max_results, memory) ==
  LET found == Found(q, memory) IN
  {R \in SUBSET found : Cardinality(R) = Min({max_results, Cardinality(found)})}

-----------------------------------------------------------------------------
(* metadata_store_open; without create a missing directory is an error. *)
metadata_store_open(create) ==
  /\ ~store /\ (dir \/ create)
  /\ dir' = TRUE /\ store' = TRUE
  /\ UNCHANGED <<file, todo, writing, acked, cut, halfway, run, faults>>

(* metadata_store_close flushes nothing: every put closes its own file. *)
metadata_store_close ==
  /\ MetaIdle
  /\ store' = FALSE
  /\ UNCHANGED <<dir, file, todo, writing, acked, cut, halfway, run, faults>>

(* The task an entry is about, if any. *)
TaskOf(e) == {id \in InfoTask : \E i \in 1..5 : e.key = TaskKey(id, InfoFields[i])}

Call(entries) ==
  /\ MetaIdle /\ run < MaxRun
  /\ todo' = entries /\ run' = run + 1
  /\ halfway' = halfway \ UNION {TaskOf(entries[i]) : i \in DOMAIN entries}
  /\ UNCHANGED <<dir, store, file, writing, acked, cut, faults>>

(* metadata_store_put, put_string, put_int64, put_double. *)
metadata_store_put(e) == Call(<<[e EXCEPT !.value = run + 1, !.created = run + 1]>>)

(* Mutant of metadata_store_task_info: the worker is recorded only once. *)
task_info_once(id) ==
  Call(IF TaskKey(id, ".worker_id") \in DOMAIN file
       THEN SubSeq(TaskEntries(id, run + 1), 1, 4) ELSE TaskEntries(id, run + 1))

metadata_store_task_info(id) == Call(TaskEntries(id, run + 1))

metadata_store_experiment(id, config) ==
  Call(ExperimentEntries(id, run + 1, config))

-----------------------------------------------------------------------------
Current == Head(todo)
Name == sanitise_key(Current.key)

(* The put at the head of todo ends; the callers ignore its result. *)
EndPut == todo' = Tail(todo) /\ writing' = Free
GiveUp == halfway' = halfway \cup TaskOf(Current)
Fault == Faulty /\ faults < MaxFaults /\ faults' = faults + 1

(* META_ERR_INVALID_ARG before the file is touched. *)
PutRejected ==
  /\ todo # <<>> /\ writing = Free
  /\ Len(Current.key) \notin 1..MaxKeyLen - 1
  /\ EndPut
  /\ UNCHANGED <<dir, store, file, acked, cut, halfway, run, faults>>

(* fopen with "wb" truncates, or creates, the file. *)
PutOpen ==
  /\ todo # <<>> /\ writing = Free
  /\ Len(Current.key) \in 1..MaxKeyLen - 1
  /\ writing' = Name
  /\ file' = [n \in DOMAIN file \cup {Name} |->
                IF n = Name THEN [entry |-> Current, whole |-> FALSE] ELSE file[n]]
  /\ UNCHANGED <<dir, store, todo, acked, cut, halfway, run, faults>>

(* fopen fails: META_ERR_IO, and the old entry stays. *)
PutOpenFails ==
  /\ todo # <<>> /\ writing = Free
  /\ Len(Current.key) \in 1..MaxKeyLen - 1
  /\ Fault /\ EndPut /\ GiveUp
  /\ UNCHANGED <<dir, store, file, acked, cut, run>>

Completed == file' = [file EXCEPT ![writing].whole = TRUE]

(* The last byte leaves the buffer before the file is closed. *)
PutFlush ==
  /\ writing # Free /\ Current.type \in Writable /\ ~file[writing].whole
  /\ Completed
  /\ UNCHANGED <<dir, store, todo, writing, acked, cut, halfway, run, faults>>

(* fclose has written the rest: META_OK, also for a blob without its data. *)
PutClose ==
  /\ writing # Free /\ Current.type \in Writable
  /\ Completed /\ EndPut
  /\ acked' = [acked EXCEPT ![writing] = Current]
  /\ cut' = cut \ {writing}
  /\ UNCHANGED <<dir, store, halfway, run, faults>>

(***************************************************************************)
(* An fwrite falls short (META_ERR_IO), or it is fclose that cannot write  *)
(* the rest, which nobody notices (META_OK).                               *)
(***************************************************************************)
PutFails ==
  /\ writing # Free /\ ~file[writing].whole
  /\ Fault /\ EndPut /\ GiveUp
  /\ cut' = cut \cup {writing}
  /\ \/ UNCHANGED acked
     \/ Current.type \in Writable /\ acked' = [acked EXCEPT ![writing] = Current]
  /\ UNCHANGED <<dir, store, file, run>>

(* An unknown type is noticed when everything but the value is written. *)
PutUnknownType ==
  /\ writing # Free /\ Current.type \notin Writable
  /\ EndPut
  /\ cut' = cut \cup {writing}
  /\ UNCHANGED <<dir, store, file, acked, halfway, run, faults>>

-----------------------------------------------------------------------------
(* Mutant of metadata_store_delete: the key is taken for the file name. *)
metadata_store_delete_raw(key) ==
  /\ MetaIdle /\ sanitise_key(key) \in DOMAIN file
  /\ file' = [n \in DOMAIN file \ {key} |-> file[n]]
  /\ acked' = [acked EXCEPT ![sanitise_key(key)] = NoEntry]
  /\ cut' = cut \ {sanitise_key(key)}
  /\ UNCHANGED <<dir, store, todo, writing, halfway, run, faults>>

(* unlink; a missing file is META_ERR_NOT_FOUND and changes nothing. *)
metadata_store_delete(key) ==
  /\ MetaIdle /\ sanitise_key(key) \in DOMAIN file
  /\ file' = [n \in DOMAIN file \ {sanitise_key(key)} |-> file[n]]
  /\ acked' = [acked EXCEPT ![sanitise_key(key)] = NoEntry]
  /\ cut' = cut \ {sanitise_key(key)}
  /\ UNCHANGED <<dir, store, todo, writing, halfway, run, faults>>

(* The process dies; what stdio had not written yet is lost with it. *)
MetaCrash ==
  /\ store /\ store' = FALSE
  /\ todo' = <<>> /\ writing' = Free
  /\ cut' = IF writing = Free THEN cut ELSE cut \cup {writing}
  /\ halfway' = halfway \cup UNION {TaskOf(todo[i]) : i \in DOMAIN todo}
  /\ faults < MaxFaults /\ faults' = faults + 1
  /\ UNCHANGED <<dir, file, acked, run>>

MetaStep ==
  \/ PutRejected \/ PutOpen \/ PutOpenFails
  \/ PutFlush \/ PutClose \/ PutFails \/ PutUnknownType

MetaNext ==
  \/ \E create \in BOOLEAN : metadata_store_open(create)
  \/ metadata_store_close
  \/ \E e \in PlainEntry : metadata_store_put(e) \/ metadata_store_delete(e.key)
  \/ \E id \in InfoTask : metadata_store_task_info(id)
  \/ \E id \in ExperimentId, config \in BOOLEAN :
       metadata_store_experiment(id, config)
  \/ MetaStep

-----------------------------------------------------------------------------
Queries == [prefix : {<<>>, <<"task.">>}, type : {"int64", "string"},
            tag : {"any", "task"}, created_after : {0, 2}, created_before : {0}]

(* What get makes of the last entry acknowledged for a file. *)
Readable(e) == e # NoEntry /\ e.type # NoData
Promised(e) ==
  IF e = NoEntry THEN Error("NOT_FOUND")
  ELSE IF e.type = NoData THEN Error("CORRUPT") ELSE [rc |-> "OK", entry |-> e]

(***************************************************************************)
(* What put acknowledged is what get returns and what queries find, across *)
(* deletions, restarts, failures of other puts and crashes during them.    *)
(* A file reads back as the last entry put into it, under whichever of the *)
(* keys that share it, or is missing when none was or it was deleted.  A   *)
(* blob put without data, although acknowledged, is CORRUPT.  A query      *)
(* finds all readable entries that match, unless its results are full,     *)
(* whatever else in the directory is unreadable.  Nothing is said of the   *)
(* one file whose last put was cut by a crash, a failing write, a failing  *)
(* fclose (which write_entry_to_file does not notice) or an unknown type:  *)
(* it has lost the entry before too, because fopen truncated it.           *)
(* (write_entry_to_file, read_entry_from_file, metadata_store_delete,      *)
(* metadata_store_query)                                                   *)
(***************************************************************************)
AckedIsRead ==
  /\ \A n \in Names \ (cut \cup {writing}) :
       /\ read_entry(n, TRUE) = Promised(acked[n])
       /\ read_entry(n, FALSE) \in {Promised(acked[n]), Error("IO")}
  /\ \A n \in Names \ cut, q \in Queries, max \in {1, 4} :
       MetaIdle /\ Readable(acked[n]) /\ Matches(acked[n], q) =>
         \A R \in QueryResults(q, max, TRUE) : Cardinality(R) < max => acked[n] \in R

(***************************************************************************)
(* The five entries of a task are from one call of task_info, or none is   *)
(* there, unless that call was cut by a crash or one of its puts failed,   *)
(* which task_info does not notice.                                        *)
(***************************************************************************)
TaskUnmixed ==
  \A id \in InfoTask \ (halfway \cup UNION {TaskOf(todo[i]) : i \in DOMAIN todo}) :
    Cardinality({metadata_store_get(TaskKey(id, InfoFields[i]), TRUE).entry.value : i \in 1..5}) = 1
=============================================================================
