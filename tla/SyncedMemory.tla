---------------------------- MODULE SyncedMemory ----------------------------
(***************************************************************************)
(* The memory of a blob, kept in up to three places: host memory, a GPU,   *)
(* or the private layout of an accelerated layer.  head says which of them *)
(* are up to date.  Threads may read at the same time (the solver's        *)
(* forward pass and the comm thread that encodes), and private accesses    *)
(* take no lock.  A writer has the blob to itself, by the layer's key and  *)
(* the waits of the synchronous node.                                      *)
(***************************************************************************)
EXTENDS Integers, FiniteSets

CONSTANTS Index,     \* the elements of the blob
          Vectors,   \* contents that may be written
          Written,   \* the elements that a partial write changes
          Descr,     \* private layouts, the descriptors of layers
          MaxWrites  \* the bound on writes

ASSUME MemoryAssumption == Vectors \subseteq [Index -> Int] /\ Written \subseteq Index

Thread == {"solver", "comm"}

VARIABLES
  gpu_mode,        \* a build with a GPU has no private layouts in use
  head, mtx,
  cpu, gpu, prv,   \* what the three places hold, prv by layout
  prv_descriptor,  \* the layout in use, a set of at most one
  op,              \* op[t]: step of a thread inside an accessor
  seen,            \* seen[t]: what its last read returned, a set of at most one
  latest, writes   \* what was written last, and how often anything was

places == <<cpu, gpu, prv>>
memory == <<gpu_mode, head, mtx, places, prv_descriptor, op, seen, latest, writes>>

Zero == [i \in Index |-> 0]
Idle == [at |-> "idle", then |-> "done", layout |-> {}, head |-> "UNINITIALIZED"]
AtPrv(h) == h \in {"HEAD_AT_PRV", "SYNCED_PRV"}
Layout == CHOOSE d \in Descr : d \in prv_descriptor

\* Fresh memory of the allocator holds anything; junk is a content nobody wrote.
Junk == [i \in Index |-> -99]

MemoryInit ==
  /\ gpu_mode \in BOOLEAN /\ head = "UNINITIALIZED" /\ mtx = "free"
  /\ cpu = Junk /\ gpu = Junk /\ prv = [d \in Descr |-> Junk] /\ prv_descriptor = {}
  /\ op = [t \in Thread |-> Idle] /\ seen = [t \in Thread |-> {}] /\ latest = Zero
  /\ writes = 0

------------------------------------------------------------------------------
\* to_cpu and to_gpu: the content of the place they fill, and the head.
CpuFilled ==
  CASE head = "UNINITIALIZED" -> [data |-> Zero, head |-> "HEAD_AT_CPU"]
    [] head = "HEAD_AT_GPU"   -> [data |-> gpu, head |-> "SYNCED"]
    [] head = "HEAD_AT_PRV"   -> [data |-> prv[Layout], head |-> "SYNCED_PRV"]
    [] OTHER                  -> [data |-> cpu, head |-> "as it is"]

GpuFilled ==
  CASE head = "UNINITIALIZED" -> [data |-> Zero, head |-> "HEAD_AT_GPU"]
    [] head = "HEAD_AT_CPU"   -> [data |-> cpu, head |-> "SYNCED"]
    [] OTHER                  -> [data |-> gpu, head |-> "as it is"]

Heads(h) == IF h = "as it is" THEN head ELSE h

Sees(t, data) == seen' = [seen EXCEPT ![t] = {data}]

\* cpu_data: the lock, the conversion, the head.  An accessor that needs it on the way
\* goes on with then.
Enter(t, then, layout) ==
  /\ mtx = "free" /\ mtx' = t
  /\ op' = [op EXCEPT ![t] = [Idle EXCEPT !.at = "to_cpu", !.then = then, !.layout = layout]]
  /\ UNCHANGED <<gpu_mode, head, places, prv_descriptor, seen, latest, writes>>

cpu_data(t) == op[t] = Idle /\ Enter(t, "done", {})

to_cpu(t) ==
  /\ op[t].at = "to_cpu"
  /\ cpu' = CpuFilled.data
  /\ op' = [op EXCEPT ![t].at = "mark", ![t].head = CpuFilled.head]
  /\ UNCHANGED <<gpu_mode, head, mtx, gpu, prv, prv_descriptor, seen, latest, writes>>

Mark(t) ==
  /\ op[t].at = "mark"
  /\ head' = Heads(op[t].head)
  /\ mtx' = "free"
  /\ IF op[t].then = "done" THEN op' = [op EXCEPT ![t] = Idle] /\ Sees(t, cpu)
                            ELSE op' = [op EXCEPT ![t].at = op[t].then] /\ UNCHANGED seen
  /\ UNCHANGED <<gpu_mode, places, prv_descriptor, latest, writes>>

\* gpu_data, under the lock; nothing in a GPU build changes head without it.
gpu_data(t) ==
  /\ op[t] = Idle /\ gpu_mode /\ mtx = "free"
  /\ gpu' = GpuFilled.data /\ head' = Heads(GpuFilled.head)
  /\ Sees(t, GpuFilled.data)
  /\ UNCHANGED <<gpu_mode, mtx, cpu, prv, prv_descriptor, op, latest, writes>>

\* get_converted_prv of a layer with layout d: prv_data() looks at head; the content
\* comes from host memory, from another layout, or is there already.
get_converted_prv_AnyLayout(t, d) ==
  /\ op[t] = Idle /\ ~gpu_mode
  /\ IF ~AtPrv(head) THEN Enter(t, "to_prv", {d})
     ELSE Sees(t, prv[d])
          /\ UNCHANGED <<gpu_mode, head, mtx, places, prv_descriptor, op, latest, writes>>

get_converted_prv(t, d) ==
  /\ op[t] = Idle /\ ~gpu_mode
  /\ IF ~AtPrv(head) THEN Enter(t, "to_prv", {d})
     ELSE /\ IF prv_descriptor = {d}
               THEN Sees(t, prv[d]) /\ UNCHANGED <<prv, op>>
               ELSE /\ prv' = [prv EXCEPT ![d] = prv[Layout]]
                    /\ op' = [op EXCEPT ![t].at = "test", ![t].layout = {d}]
                    /\ UNCHANGED seen
          /\ UNCHANGED <<gpu_mode, head, mtx, cpu, gpu, prv_descriptor, latest, writes>>

ConvertToPrv(t) ==
  /\ op[t].at = "to_prv"
  /\ prv' = [d \in Descr |-> IF d \in op[t].layout THEN cpu ELSE prv[d]]
  /\ op' = [op EXCEPT ![t].at = "test"]
  /\ UNCHANGED <<gpu_mode, head, mtx, cpu, gpu, prv_descriptor, seen, latest, writes>>

\* set_prv_descriptor with same_data, without the lock: head is read, then written.
NewHead_Synced(h) == "SYNCED_PRV"

NewHead(h) == IF h # "HEAD_AT_PRV" THEN "SYNCED_PRV" ELSE "HEAD_AT_PRV"

TestHead(t) ==
  /\ op[t].at = "test"
  /\ op' = [op EXCEPT ![t].at = "set", ![t].head = NewHead(head)]
  /\ UNCHANGED <<gpu_mode, head, mtx, places, prv_descriptor, seen, latest, writes>>

set_prv_descriptor(t) ==
  /\ op[t].at = "set"
  /\ head' = op[t].head /\ prv_descriptor' = op[t].layout
  /\ op' = [op EXCEPT ![t] = Idle]
  /\ Sees(t, prv[CHOOSE d \in Descr : d \in op[t].layout])
  /\ UNCHANGED <<gpu_mode, mtx, places, latest, writes>>

------------------------------------------------------------------------------
\* Writers.  Changed is what a partial write of v makes of the content the pointer
\* shows.
Alone == mtx = "free" /\ \A t \in Thread : op[t] = Idle
Changed(old, v) == [i \in Index |-> IF i \in Written THEN v[i] ELSE old[i]]

Wrote(new) ==
  /\ writes < MaxWrites /\ writes' = writes + 1
  /\ latest' = new /\ seen' = [t \in Thread |-> {}]
  /\ UNCHANGED <<gpu_mode, mtx, op>>

mutable_cpu_data(v) ==
  /\ Alone
  /\ cpu' = Changed(CpuFilled.data, v) /\ head' = "HEAD_AT_CPU"
  /\ Wrote(Changed(latest, v)) /\ UNCHANGED <<gpu, prv, prv_descriptor>>

mutable_gpu_data(v) ==
  /\ Alone /\ gpu_mode
  /\ gpu' = Changed(GpuFilled.data, v) /\ head' = "HEAD_AT_GPU"
  /\ Wrote(Changed(latest, v)) /\ UNCHANGED <<cpu, prv, prv_descriptor>>

PrvFilled == IF head = "HEAD_AT_CPU" THEN cpu ELSE prv[Layout]

mutable_prv_data(v) ==
  /\ Alone /\ ~gpu_mode /\ prv_descriptor # {}
  /\ prv' = [prv EXCEPT ![Layout] = Changed(PrvFilled, v)] /\ head' = "HEAD_AT_PRV"
  /\ Wrote(Changed(latest, v)) /\ UNCHANGED <<cpu, gpu, prv_descriptor>>

\* set_cpu_data and set_gpu_data exchange the memory; a layer that writes its output in
\* a layout of its own calls set_prv_descriptor without same_data.
set_cpu_data(v) ==
  /\ Alone
  /\ cpu' = v /\ head' = "HEAD_AT_CPU"
  /\ Wrote(v) /\ UNCHANGED <<gpu, prv, prv_descriptor>>

set_gpu_data(v) ==
  /\ Alone /\ gpu_mode
  /\ gpu' = v /\ head' = "HEAD_AT_GPU"
  /\ Wrote(v) /\ UNCHANGED <<cpu, prv, prv_descriptor>>

WritePrv(d, v) ==
  /\ Alone /\ ~gpu_mode
  /\ prv' = [prv EXCEPT ![d] = v] /\ prv_descriptor' = {d} /\ head' = "HEAD_AT_PRV"
  /\ Wrote(v) /\ UNCHANGED <<cpu, gpu>>

\* The prefetch thread sends a batch it has just filled; it synchronises at once.
async_gpu_push ==
  /\ Alone /\ gpu_mode /\ head = "HEAD_AT_CPU"
  /\ gpu' = cpu /\ head' = "SYNCED"
  /\ UNCHANGED <<gpu_mode, mtx, cpu, prv, prv_descriptor, op, seen, latest, writes>>

\* Only the solver runs layers; the comm thread encodes from host memory.
Layers ==
  \/ gpu_data("solver") \/ \E d \in Descr : get_converted_prv("solver", d)
  \/ ConvertToPrv("solver") \/ TestHead("solver") \/ set_prv_descriptor("solver")

Read(t) == cpu_data(t) \/ to_cpu(t) \/ Mark(t)

Write ==
  \/ async_gpu_push
  \/ \E v \in Vectors :
       \/ mutable_cpu_data(v) \/ mutable_gpu_data(v) \/ mutable_prv_data(v)
       \/ set_cpu_data(v) \/ set_gpu_data(v)
       \/ \E d \in Descr : WritePrv(d, v)

MemoryNext == Write \/ Layers \/ \E t \in Thread : Read(t)

------------------------------------------------------------------------------
\* Every read returns what was written last, wherever it was written and whoever
\* converts at the same time (syncedmem.cpp:25-117, 140-203, mkl_memory.cpp:167-293).
SeesLastWrite == \A t \in Thread : seen[t] \subseteq {latest}

\* A place that head calls up to date is, also while another thread is between a
\* conversion and the assignment of head; so no write is lost in a later conversion
\* (syncedmem.cpp:25-89, 175-203).
HeadIsTrue ==
  /\ head \in {"HEAD_AT_CPU", "SYNCED", "SYNCED_PRV"} => cpu = latest
  /\ head \in {"HEAD_AT_GPU", "SYNCED"} => gpu = latest
  /\ AtPrv(head) => prv_descriptor # {} /\ prv[Layout] = latest
  /\ head = "UNINITIALIZED" => latest = Zero
==============================================================================
