--------------------------- MODULE BlobCodecProofs ---------------------------
(***************************************************************************)
(* For every shape of the blob, every set of private layouts and any       *)
(* number of writes: a read returns what was written last, and head names  *)
(* only places that are up to date, although private accesses take no      *)
(* lock.  A message brings its own part only, and all of it when it is not *)
(* compressed.                                                             *)
(***************************************************************************)
EXTENDS BlobCodec, FiniteSetTheorems, TLAPS

Content == [Index -> Int]
HeadNames ==
  {"UNINITIALIZED", "HEAD_AT_CPU", "HEAD_AT_GPU", "SYNCED", "HEAD_AT_PRV", "SYNCED_PRV"}

OpRecord ==
  [at     : {"idle", "to_cpu", "mark", "to_prv", "test", "set"},
   then   : {"done", "to_prv"},
   layout : SUBSET Descr,
   head   : HeadNames \cup {"as it is"}]

TypeOK ==
  /\ gpu_mode \in BOOLEAN
  /\ head \in HeadNames
  /\ cpu \in Content /\ gpu \in Content /\ latest \in Content
  /\ prv \in [Descr -> Content]
  /\ prv_descriptor \in SUBSET Descr
  /\ op \in [Thread -> OpRecord]
  /\ seen \in [Thread -> SUBSET Content]

\* The lock is held from entering cpu_data() to the assignment of head.
LockHeld ==
  /\ mtx \in Thread \cup {"free"}
  /\ \A t \in Thread : op[t].at \in {"to_cpu", "mark"} <=> mtx = t

\* A build with a GPU uses no private layout, and one without it no GPU.
OneMode ==
  IF gpu_mode THEN ~AtPrv(head) ELSE head \notin {"HEAD_AT_GPU", "SYNCED"}

LayoutKnown ==
  /\ prv_descriptor = {} \/ \E d \in Descr : prv_descriptor = {d}
  /\ prv_descriptor # {} => head # "UNINITIALIZED"

\* Only the solver converts to a layout of a layer, and it knows which.
Converting(t) ==
  /\ op[t].at = "idle" => op[t] = Idle
  /\ (op[t].at \in {"to_prv", "test", "set"} \/ op[t].then = "to_prv")
       => t = "solver" /\ ~gpu_mode /\ \E d \in Descr : op[t].layout = {d}

\* What a thread that has the lock is about to write into head is true.
MarkIsTrue(t) ==
  op[t].at = "mark" =>
    /\ cpu = latest
    /\ op[t].head \in {"as it is", "HEAD_AT_CPU", "SYNCED", "SYNCED_PRV"}
    /\ op[t].head = "as it is" => head # "UNINITIALIZED"
    /\ op[t].head = "SYNCED" => gpu_mode /\ gpu = latest
    /\ op[t].head = "SYNCED_PRV" => ~gpu_mode /\ prv_descriptor # {} /\ prv[Layout] = latest

\* So is what set_prv_descriptor, which has not, is about to write.
SetIsTrue(t) ==
  /\ op[t].at \in {"to_prv", "test", "set"} => head # "UNINITIALIZED"
  /\ op[t].at = "to_prv" => cpu = latest
  /\ op[t].at \in {"test", "set"} => \A d \in op[t].layout : prv[d] = latest
  /\ op[t].at = "set" => /\ op[t].head \in {"HEAD_AT_PRV", "SYNCED_PRV"}
                         /\ op[t].head = "SYNCED_PRV" => cpu = latest

\* The inductive invariant.
IInv ==
  /\ TypeOK
  /\ LockHeld
  /\ OneMode
  /\ LayoutKnown
  /\ HeadIsTrue
  /\ SeesLastWrite
  /\ \A t \in Thread : Converting(t) /\ MarkIsTrue(t) /\ SetIsTrue(t)

------------------------------------------------------------------------------
\* The layout in use is the one element of prv_descriptor.
LEMMA LayoutOf ==
  ASSUME NEW d \in Descr, prv_descriptor = {d}
  PROVE  Layout = d
  BY Zenon DEF Layout

\* to_cpu() finds the last content, wherever it is (syncedmem.cpp:25-59).
LEMMA CpuFill ==
  ASSUME IInv
  PROVE  /\ CpuFilled.data = latest
         /\ CpuFilled.head \in {"as it is", "HEAD_AT_CPU", "SYNCED", "SYNCED_PRV"}
         /\ CpuFilled.head = "as it is" => head # "UNINITIALIZED"
         /\ CpuFilled.head = "SYNCED" => head = "HEAD_AT_GPU"
         /\ CpuFilled.head = "SYNCED_PRV" => head = "HEAD_AT_PRV"
<1>1. head \in HeadNames /\ HeadIsTrue
  BY Zenon DEF IInv, TypeOK
<1>2. CASE head = "UNINITIALIZED"
  BY Zenon, <1>1, <1>2 DEF CpuFilled, HeadIsTrue
<1>3. CASE head = "HEAD_AT_GPU"
  BY Zenon, <1>1, <1>3 DEF CpuFilled, HeadIsTrue
<1>4. CASE head = "HEAD_AT_PRV"
  BY Zenon, <1>1, <1>4 DEF CpuFilled, HeadIsTrue, AtPrv
<1>5. CASE head \in {"HEAD_AT_CPU", "SYNCED", "SYNCED_PRV"}
  BY Zenon, <1>1, <1>5 DEF CpuFilled, HeadIsTrue
<1>6. QED
  BY Zenon, <1>1, <1>2, <1>3, <1>4, <1>5 DEF HeadNames

\* So does to_gpu() in a build with a GPU (syncedmem.cpp:61-89).
LEMMA GpuFill ==
  ASSUME IInv, gpu_mode
  PROVE  /\ GpuFilled.data = latest
         /\ GpuFilled.head \in {"as it is", "HEAD_AT_GPU", "SYNCED"}
         /\ GpuFilled.head = "as it is" => head \in {"HEAD_AT_GPU", "SYNCED"}
         /\ GpuFilled.head = "SYNCED" => head = "HEAD_AT_CPU"
<1>1. head \in {"UNINITIALIZED", "HEAD_AT_CPU", "HEAD_AT_GPU", "SYNCED"} /\ HeadIsTrue
  BY Zenon DEF IInv, TypeOK, OneMode, AtPrv, HeadNames
<1>2. CASE head = "UNINITIALIZED"
  BY Zenon, <1>1, <1>2 DEF GpuFilled, HeadIsTrue
<1>3. CASE head = "HEAD_AT_CPU"
  BY Zenon, <1>1, <1>3 DEF GpuFilled, HeadIsTrue
<1>4. CASE head \in {"HEAD_AT_GPU", "SYNCED"}
  BY Zenon, <1>1, <1>4 DEF GpuFilled, HeadIsTrue
<1>5. QED
  BY Zenon, <1>1, <1>2, <1>3, <1>4

\* New memory is in no place yet.
LEMMA InitIInv == MemoryInit => IInv
<1> SUFFICES ASSUME MemoryInit PROVE IInv
  BY Zenon
<1>1. Zero \in Content /\ Junk \in Content /\ Idle \in OpRecord
  BY DEF Zero, Junk, Idle, Content, OpRecord, HeadNames
<1>2. TypeOK
  BY Zenon, <1>1 DEF MemoryInit, TypeOK, HeadNames
<1>3. \A t \in Thread : op[t] = Idle /\ op[t].at = "idle" /\ op[t].then = "done"
  BY Zenon DEF MemoryInit, Idle
<1>4. LockHeld /\ OneMode /\ LayoutKnown /\ HeadIsTrue /\ SeesLastWrite
  BY Zenon, <1>3 DEF MemoryInit, LockHeld, OneMode, LayoutKnown, HeadIsTrue, SeesLastWrite, AtPrv, Thread
<1>5. \A t \in Thread : Converting(t) /\ MarkIsTrue(t) /\ SetIsTrue(t)
  BY Zenon, <1>3 DEF Converting, MarkIsTrue, SetIsTrue
<1>6. QED
  BY Zenon, <1>2, <1>4, <1>5 DEF IInv

------------------------------------------------------------------------------
\* A writer has the blob to itself: it is enough that head tells the truth about what
\* it leaves.
LEMMA WriterIInv ==
  ASSUME IInv, Alone, UNCHANGED <<gpu_mode, mtx, op>>,
         seen' \in [Thread -> SUBSET Content], SeesLastWrite',
         head' \in HeadNames, cpu' \in Content, gpu' \in Content, latest' \in Content,
         prv' \in [Descr -> Content], prv_descriptor' \in SUBSET Descr,
         OneMode', LayoutKnown', HeadIsTrue'
  PROVE  IInv'
<1>1. TypeOK'
  BY Zenon DEF IInv, TypeOK
<1>2. LockHeld'
  BY Zenon DEF IInv, LockHeld
<1>3. \A t \in Thread : op'[t] = Idle /\ op'[t].at = "idle" /\ op'[t].then = "done"
  BY DEF Alone, Idle
<1>4. \A t \in Thread : Converting(t)' /\ MarkIsTrue(t)' /\ SetIsTrue(t)'
  BY Zenon, <1>3 DEF Converting, MarkIsTrue, SetIsTrue
<1>5. QED
  BY Zenon, <1>1, <1>2, <1>4 DEF IInv

\* A partial write changes the content element by element.
LEMMA ChangedContent ==
  ASSUME NEW old \in Content, NEW v \in Vectors
  PROVE  Changed(old, v) \in Content
  BY Zenon, MemoryAssumption DEF Changed, Content

\* Every writer: mutable accessors, memory exchanged, output in a private layout, a push.
LEMMA WriteIInv ==
  ASSUME IInv, Write
  PROVE  IInv'
<1>1. TypeOK /\ OneMode /\ LayoutKnown /\ HeadIsTrue /\ SeesLastWrite
  BY Zenon DEF IInv
<1>2. ASSUME NEW new \in Content, Wrote(new)
      PROVE  /\ seen' \in [Thread -> SUBSET Content] /\ SeesLastWrite' /\ latest' \in Content
             /\ latest' = new /\ UNCHANGED <<gpu_mode, mtx, op>>
  BY Zenon, <1>2 DEF Wrote, SeesLastWrite
<1>3. CASE async_gpu_push
  <2>1. /\ Alone /\ gpu_mode /\ head = "HEAD_AT_CPU" /\ gpu' = cpu /\ head' = "SYNCED"
        /\ UNCHANGED <<gpu_mode, mtx, cpu, prv, prv_descriptor, op, seen, latest>>
    BY Zenon, <1>3 DEF async_gpu_push
  <2>2. OneMode' /\ LayoutKnown' /\ HeadIsTrue' /\ SeesLastWrite'
    BY Zenon, <1>1, <2>1 DEF OneMode, LayoutKnown, HeadIsTrue, SeesLastWrite, AtPrv
  <2>3. QED
    BY Zenon, <1>1, <2>1, <2>2, WriterIInv DEF TypeOK, HeadNames
<1>4. ASSUME NEW v \in Vectors, mutable_cpu_data(v) \/ set_cpu_data(v)
      PROVE  IInv'
  <2>1. PICK new \in Content : Wrote(new) /\ cpu' = new
    BY Zenon, <1>1, <1>4, CpuFill, ChangedContent, MemoryAssumption
       DEF mutable_cpu_data, set_cpu_data, TypeOK, Content
  <2>2. Alone /\ head' = "HEAD_AT_CPU" /\ UNCHANGED <<gpu, prv, prv_descriptor>>
    BY Zenon, <1>4 DEF mutable_cpu_data, set_cpu_data
  <2>3. OneMode' /\ LayoutKnown' /\ HeadIsTrue'
    BY Zenon, <1>1, <1>2, <2>1, <2>2 DEF OneMode, LayoutKnown, HeadIsTrue, AtPrv
  <2>4. QED
    BY Zenon, <1>1, <1>2, <2>1, <2>2, <2>3, WriterIInv DEF TypeOK, HeadNames
<1>5. ASSUME NEW v \in Vectors, mutable_gpu_data(v) \/ set_gpu_data(v)
      PROVE  IInv'
  <2>1. Alone /\ gpu_mode /\ head' = "HEAD_AT_GPU" /\ UNCHANGED <<cpu, prv, prv_descriptor>>
    BY Zenon, <1>5 DEF mutable_gpu_data, set_gpu_data
  <2>2. PICK new \in Content : Wrote(new) /\ gpu' = new
    BY Zenon, <1>1, <1>5, <2>1, GpuFill, ChangedContent, MemoryAssumption
       DEF mutable_gpu_data, set_gpu_data, TypeOK, Content
  <2>3. OneMode' /\ LayoutKnown' /\ HeadIsTrue'
    BY Zenon, <1>1, <1>2, <2>1, <2>2 DEF OneMode, LayoutKnown, HeadIsTrue, AtPrv
  <2>4. QED
    BY Zenon, <1>1, <1>2, <2>1, <2>2, <2>3, WriterIInv DEF TypeOK, HeadNames
<1>6. ASSUME NEW v \in Vectors, mutable_prv_data(v)
      PROVE  IInv'
  <2>1. /\ Alone /\ ~gpu_mode /\ prv_descriptor # {} /\ head' = "HEAD_AT_PRV"
        /\ prv' = [prv EXCEPT ![Layout] = Changed(PrvFilled, v)]
        /\ Wrote(Changed(latest, v))
        /\ UNCHANGED <<cpu, gpu, prv_descriptor>>
    BY Zenon, <1>6 DEF mutable_prv_data
  <2>2. PICK d \in Descr : prv_descriptor = {d} /\ Layout = d
    BY Zenon, <1>1, <2>1, LayoutOf DEF LayoutKnown
  <2>3. PrvFilled = latest
    BY Zenon, <1>1, <2>1 DEF PrvFilled, HeadIsTrue, LayoutKnown, OneMode, TypeOK, HeadNames, AtPrv
  <2>4. PICK new \in Content : new = Changed(latest, v)
    BY Zenon, <1>1, ChangedContent DEF TypeOK
  <2>5. prv' = [prv EXCEPT ![d] = new] /\ prv' \in [Descr -> Content] /\ prv'[d] = new
    BY Zenon, <1>1, <2>1, <2>2, <2>3, <2>4 DEF TypeOK
  <2>6. Layout' = d
    BY Zenon, <2>1, <2>2 DEF Layout
  <2>7. OneMode' /\ LayoutKnown' /\ HeadIsTrue'
    BY <1>1, <1>2, <2>1, <2>2, <2>4, <2>5, <2>6 DEF OneMode, LayoutKnown, HeadIsTrue, AtPrv
  <2>8. QED
    BY Zenon, <1>1, <1>2, <2>1, <2>4, <2>5, <2>7, WriterIInv DEF TypeOK, HeadNames
<1>7. ASSUME NEW v \in Vectors, NEW d \in Descr, WritePrv(d, v)
      PROVE  IInv'
  <2>1. /\ Alone /\ ~gpu_mode /\ prv' = [prv EXCEPT ![d] = v] /\ prv_descriptor' = {d}
        /\ head' = "HEAD_AT_PRV" /\ Wrote(v) /\ v \in Content
        /\ UNCHANGED <<cpu, gpu>>
    BY Zenon, <1>7, MemoryAssumption DEF WritePrv, Content
  <2>2. prv' \in [Descr -> Content] /\ prv'[d] = v /\ Layout' = d
    BY Zenon, <1>1, <2>1 DEF TypeOK, Layout
  <2>3. OneMode' /\ LayoutKnown' /\ HeadIsTrue'
    BY <1>1, <1>2, <2>1, <2>2 DEF OneMode, LayoutKnown, HeadIsTrue, AtPrv
  <2>4. QED
    BY Zenon, <1>1, <1>2, <2>1, <2>2, <2>3, WriterIInv DEF TypeOK, HeadNames
<1>8. QED
  BY Zenon, <1>3, <1>4, <1>5, <1>6, <1>7 DEF Write

------------------------------------------------------------------------------
\* A step of another thread that keeps the layouts, and puts nothing but the last
\* content into the host memory, leaves a conversion as it is.
LEMMA OtherConverts ==
  ASSUME NEW u \in Thread, Converting(u), SetIsTrue(u), op'[u] = op[u],
         gpu_mode' = gpu_mode, latest' = latest, prv' = prv, cpu' = cpu \/ cpu' = latest,
         head # "UNINITIALIZED" => head' # "UNINITIALIZED"
  PROVE  Converting(u)' /\ SetIsTrue(u)'
<1>1. Converting(u)'
  BY Zenon DEF Converting
<1>2. SetIsTrue(u)'
  BY Zenon DEF SetIsTrue
<1>3. QED
  BY Zenon, <1>1, <1>2

\* A thread enters cpu_data() and has the lock.
LEMMA EnterIInv ==
  ASSUME IInv, NEW t \in Thread, op[t] = Idle, NEW then, NEW layout \in SUBSET Descr,
         Enter(t, then, layout),
         \/ then = "done"
         \/ then = "to_prv" /\ t = "solver" /\ ~gpu_mode /\ \E d \in Descr : layout = {d}
  PROVE  IInv'
<1>1. PICK o \in OpRecord :
        /\ o.at = "to_cpu" /\ o.then = then /\ o.layout = layout
        /\ op' = [op EXCEPT ![t] = o]
  BY Zenon DEF Enter, Idle, OpRecord, HeadNames
<1>2. /\ mtx = "free" /\ mtx' = t
      /\ UNCHANGED <<gpu_mode, head, cpu, gpu, prv, prv_descriptor, seen, latest>>
  BY Zenon DEF Enter, places
<1>3. op'[t] = o /\ (\A u \in Thread \ {t} : op'[u] = op[u]) /\ op' \in [Thread -> OpRecord]
  BY Zenon, <1>1 DEF IInv, TypeOK
<1>4. LockHeld'
  BY Zenon, <1>1, <1>2, <1>3 DEF IInv, LockHeld, Thread
<1>5. TypeOK' /\ OneMode' /\ LayoutKnown' /\ HeadIsTrue' /\ SeesLastWrite'
  BY Zenon, <1>2, <1>3 DEF IInv, TypeOK, OneMode, LayoutKnown, HeadIsTrue, SeesLastWrite, Layout
<1>6. Converting(t)' /\ MarkIsTrue(t)' /\ SetIsTrue(t)'
  BY Zenon, <1>1, <1>2, <1>3 DEF Converting, MarkIsTrue, SetIsTrue
<1>7. ASSUME NEW u \in Thread \ {t} PROVE Converting(u)' /\ MarkIsTrue(u)' /\ SetIsTrue(u)'
  <2>1. Converting(u)' /\ SetIsTrue(u)'
    BY Zenon, <1>2, <1>3, OtherConverts DEF IInv
  <2>2. op[u].at # "mark"
    BY Zenon, <1>2 DEF IInv, LockHeld, Thread
  <2>3. QED
    BY Zenon, <1>3, <2>1, <2>2 DEF MarkIsTrue
<1>8. QED
  BY Zenon, <1>4, <1>5, <1>6, <1>7 DEF IInv

\* to_cpu() fills the host memory; head is assigned after it.
LEMMA ToCpuIInv ==
  ASSUME IInv, NEW t \in Thread, to_cpu(t)
  PROVE  IInv'
<1>1. PICK h : /\ h = CpuFilled.head
               /\ h \in {"as it is", "HEAD_AT_CPU", "SYNCED", "SYNCED_PRV"}
               /\ h = "as it is" => head # "UNINITIALIZED"
               /\ h = "SYNCED" => head = "HEAD_AT_GPU"
               /\ h = "SYNCED_PRV" => head = "HEAD_AT_PRV"
  BY Zenon, CpuFill
<1>2. PICK o \in OpRecord :
        /\ o.at = "mark" /\ o.then = op[t].then /\ o.layout = op[t].layout /\ o.head = h
        /\ op' = [op EXCEPT ![t] = o]
  <2>1. op[t] \in OpRecord /\ op \in [Thread -> OpRecord]
    BY Zenon DEF IInv, TypeOK
  <2>2. [op[t] EXCEPT !.at = "mark", !.head = h] \in OpRecord
    BY Zenon, <1>1, <2>1 DEF OpRecord, HeadNames
  <2>3. op' = [op EXCEPT ![t] = [op[t] EXCEPT !.at = "mark", !.head = h]]
    BY Zenon, <1>1, <2>1 DEF to_cpu
  <2>4. QED
    BY Zenon, <2>1, <2>2, <2>3 DEF OpRecord
<1>3. /\ op[t].at = "to_cpu" /\ cpu' = latest
      /\ UNCHANGED <<gpu_mode, head, mtx, gpu, prv, prv_descriptor, seen, latest>>
  BY Zenon, CpuFill DEF to_cpu
<1>4. op'[t] = o /\ (\A u \in Thread \ {t} : op'[u] = op[u]) /\ op' \in [Thread -> OpRecord]
  BY Zenon, <1>2 DEF IInv, TypeOK
<1>5. mtx = t /\ LockHeld'
  BY Zenon, <1>2, <1>3, <1>4 DEF IInv, LockHeld
<1>6. TypeOK'
  BY Zenon, <1>3, <1>4 DEF IInv, TypeOK
<1>7. OneMode' /\ LayoutKnown' /\ HeadIsTrue' /\ SeesLastWrite'
  BY Zenon, <1>3 DEF IInv, OneMode, LayoutKnown, HeadIsTrue, SeesLastWrite, Layout
<1>8. Converting(t)' /\ SetIsTrue(t)'
  BY <1>2, <1>3, <1>4 DEF IInv, Converting, SetIsTrue
<1>9. MarkIsTrue(t)'
  <2>1. h = "SYNCED" => gpu_mode /\ gpu = latest
    BY Zenon, <1>1 DEF IInv, OneMode, HeadIsTrue
  <2>2. h = "SYNCED_PRV" => ~gpu_mode /\ prv_descriptor # {} /\ prv[Layout] = latest
    BY Zenon, <1>1 DEF IInv, OneMode, HeadIsTrue, AtPrv
  <2>3. QED
    BY Zenon, <1>1, <1>2, <1>3, <1>4, <2>1, <2>2 DEF MarkIsTrue, Layout
<1>10. ASSUME NEW u \in Thread \ {t} PROVE Converting(u)' /\ MarkIsTrue(u)' /\ SetIsTrue(u)'
  <2>1. op[u].at # "mark"
    BY Zenon, <1>5 DEF IInv, LockHeld
  <2>2. Converting(u)' /\ SetIsTrue(u)'
    BY Zenon, <1>3, <1>4, OtherConverts DEF IInv
  <2>3. QED
    BY Zenon, <1>4, <2>1, <2>2 DEF MarkIsTrue
<1>11. QED
  BY Zenon, <1>5, <1>6, <1>7, <1>8, <1>9, <1>10 DEF IInv

\* head is assigned and the lock let go; the reader has its content, or goes on to
\* convert it.
LEMMA MarkIInv ==
  ASSUME IInv, NEW t \in Thread, Mark(t)
  PROVE  IInv'
<1>1. /\ op[t].at = "mark" /\ head' = Heads(op[t].head) /\ mtx' = "free"
      /\ UNCHANGED <<gpu_mode, cpu, gpu, prv, prv_descriptor, latest>>
  BY Zenon DEF Mark, places
<1>2. MarkIsTrue(t) /\ op[t] \in OpRecord /\ head \in HeadNames
  BY Zenon DEF IInv, TypeOK
<1>3. /\ head' \in HeadNames /\ head' # "UNINITIALIZED" /\ cpu = latest
      /\ OneMode' /\ LayoutKnown' /\ HeadIsTrue'
  <2>1. op[t].head \in {"as it is", "HEAD_AT_CPU", "SYNCED", "SYNCED_PRV"} /\ cpu = latest
    BY Zenon, <1>1, <1>2 DEF MarkIsTrue
  <2>2. CASE op[t].head = "as it is"
    <3>1. head' = head /\ head # "UNINITIALIZED"
      BY Zenon, <1>1, <1>2, <2>2 DEF Heads, MarkIsTrue
    <3>2. QED
      BY Zenon, <1>1, <1>2, <2>1, <3>1 DEF IInv, OneMode, LayoutKnown, HeadIsTrue, Layout
  <2>3. CASE op[t].head = "HEAD_AT_CPU"
    BY Zenon, <1>1, <2>1, <2>3 DEF Heads, HeadNames, IInv, OneMode, LayoutKnown, HeadIsTrue, AtPrv
  <2>4. CASE op[t].head = "SYNCED"
    BY Zenon, <1>1, <1>2, <2>1, <2>4 DEF MarkIsTrue, Heads, HeadNames, IInv, OneMode, LayoutKnown,
         HeadIsTrue, AtPrv
  <2>5. CASE op[t].head = "SYNCED_PRV"
    BY Zenon, <1>1, <1>2, <2>1, <2>5 DEF MarkIsTrue, Heads, HeadNames, IInv, OneMode, LayoutKnown,
         HeadIsTrue, AtPrv, Layout
  <2>6. QED
    BY Zenon, <2>1, <2>2, <2>3, <2>4, <2>5
<1>4. PICK o \in OpRecord :
        /\ op' = [op EXCEPT ![t] = o]
        /\ o = Idle \/ (o.at = "to_prv" /\ o.then = "to_prv" /\ o.layout = op[t].layout
                        /\ op[t].then = "to_prv")
  <2>1. CASE op[t].then = "done"
    BY Zenon, <2>1 DEF Mark, Idle, OpRecord, HeadNames
  <2>2. CASE op[t].then = "to_prv"
    BY Zenon, <1>2, <2>2 DEF Mark, OpRecord
  <2>3. QED
    BY Zenon, <1>2, <2>1, <2>2 DEF OpRecord
<1>5. op'[t] = o /\ (\A u \in Thread \ {t} : op'[u] = op[u]) /\ op' \in [Thread -> OpRecord]
  BY Zenon, <1>4 DEF IInv, TypeOK
<1>6. o.at \in {"idle", "to_prv"} /\ (o.at = "idle" => o = Idle)
  BY <1>4 DEF Idle
<1>7. mtx = t /\ LockHeld'
  BY Zenon, <1>1, <1>5, <1>6 DEF IInv, LockHeld, Thread
<1>8. seen' \in [Thread -> SUBSET Content] /\ SeesLastWrite'
  BY <1>1, <1>3 DEF Mark, Sees, IInv, TypeOK, SeesLastWrite
<1>9. TypeOK'
  BY Zenon, <1>1, <1>3, <1>5, <1>8 DEF IInv, TypeOK
<1>10. Converting(t)' /\ MarkIsTrue(t)' /\ SetIsTrue(t)'
  <2>1. o.at = "to_prv" \/ o.then = "to_prv"
          => t = "solver" /\ ~gpu_mode /\ \E d \in Descr : o.layout = {d}
    BY <1>4 DEF IInv, Converting, Idle
  <2>2. QED
    BY Zenon, <1>1, <1>3, <1>5, <1>6, <2>1 DEF Converting, MarkIsTrue, SetIsTrue
<1>11. ASSUME NEW u \in Thread \ {t} PROVE Converting(u)' /\ MarkIsTrue(u)' /\ SetIsTrue(u)'
  <2>1. op[u].at # "mark"
    BY Zenon, <1>7 DEF IInv, LockHeld
  <2>2. Converting(u)' /\ SetIsTrue(u)'
    BY Zenon, <1>1, <1>3, <1>5, OtherConverts DEF IInv
  <2>3. QED
    BY Zenon, <1>5, <2>1, <2>2 DEF MarkIsTrue
<1>12. QED
  BY Zenon, <1>3, <1>7, <1>8, <1>9, <1>10, <1>11 DEF IInv

\* A step of the solver that keeps the host memory, and puts nothing but the last
\* content into a layout, leaves a thread that is about to assign head as it is.
LEMMA OtherMarks ==
  ASSUME NEW u \in Thread, MarkIsTrue(u), op'[u] = op[u],
         UNCHANGED <<gpu_mode, latest, cpu, gpu>>,
         head # "UNINITIALIZED" => head' # "UNINITIALIZED",
         prv_descriptor # {} /\ prv[Layout] = latest
           => prv_descriptor' # {} /\ (prv[Layout])' = latest
  PROVE  MarkIsTrue(u)'
  BY Zenon DEF MarkIsTrue

\* gpu_data() under the lock.
LEMMA GpuDataIInv ==
  ASSUME IInv, NEW t \in Thread, gpu_data(t)
  PROVE  IInv'
<1>1. /\ gpu_mode /\ mtx = "free" /\ gpu' = latest /\ head' = Heads(GpuFilled.head)
      /\ seen' = [seen EXCEPT ![t] = {latest}]
      /\ UNCHANGED <<gpu_mode, mtx, cpu, prv, prv_descriptor, op, latest>>
  BY Zenon, GpuFill DEF gpu_data, Sees
<1>2. /\ head' \in {"HEAD_AT_GPU", "SYNCED"}
      /\ head' = "SYNCED" => head \in {"HEAD_AT_CPU", "SYNCED"}
  BY Zenon, <1>1, GpuFill DEF Heads
<1>3. TypeOK'
  BY Zenon, <1>1, <1>2 DEF IInv, TypeOK, HeadNames
<1>4. LockHeld' /\ LayoutKnown' /\ OneMode' /\ SeesLastWrite'
  BY Zenon, <1>1, <1>2 DEF IInv, TypeOK, LockHeld, LayoutKnown, OneMode, SeesLastWrite, AtPrv
<1>5. HeadIsTrue'
  BY Zenon, <1>1, <1>2 DEF IInv, HeadIsTrue, AtPrv
<1>6. ASSUME NEW u \in Thread PROVE Converting(u)' /\ MarkIsTrue(u)' /\ SetIsTrue(u)'
  <2>1. op[u].at # "mark"
    BY Zenon, <1>1 DEF IInv, LockHeld, Thread
  <2>2. op'[u] = op[u] /\ Converting(u)' /\ SetIsTrue(u)'
    BY Zenon, <1>1, <1>2, OtherConverts DEF IInv
  <2>3. QED
    BY Zenon, <2>1, <2>2 DEF MarkIsTrue
<1>7. QED
  BY Zenon, <1>3, <1>4, <1>5, <1>6 DEF IInv

\* get_converted_prv() of a layer: by the host memory, from another layout, or at once.
LEMMA GetConvertedIInv ==
  ASSUME IInv, NEW t \in Thread, NEW d \in Descr, t = "solver", get_converted_prv(t, d)
  PROVE  IInv'
<1>1. op[t] = Idle /\ ~gpu_mode
  BY Zenon DEF get_converted_prv
<1>2. CASE ~AtPrv(head)
  BY Zenon, <1>1, <1>2, EnterIInv DEF get_converted_prv
<1>3. CASE AtPrv(head)
  <2>1. PICK e \in Descr : prv_descriptor = {e} /\ Layout = e /\ prv[e] = latest
    BY Zenon, <1>3, LayoutOf DEF IInv, LayoutKnown, HeadIsTrue
  <2>2. UNCHANGED <<gpu_mode, head, mtx, cpu, gpu, prv_descriptor, latest>> /\ Layout' = Layout
    BY Zenon, <1>3 DEF get_converted_prv, Layout
  <2>3. CASE e = d
    <3>1. seen' = [seen EXCEPT ![t] = {latest}] /\ UNCHANGED <<prv, op>>
      BY Zenon, <1>3, <2>1, <2>3 DEF get_converted_prv, Sees
    <3>2. seen' \in [Thread -> SUBSET Content] /\ SeesLastWrite'
      BY Zenon, <2>2, <3>1 DEF IInv, TypeOK, SeesLastWrite
    <3>3. TypeOK' /\ LockHeld' /\ LayoutKnown' /\ OneMode' /\ HeadIsTrue'
      BY Zenon, <2>2, <3>1, <3>2 DEF IInv, TypeOK, LockHeld, LayoutKnown, OneMode, HeadIsTrue
    <3>4. \A u \in Thread : Converting(u)' /\ MarkIsTrue(u)' /\ SetIsTrue(u)'
      BY Zenon, <2>2, <3>1, OtherConverts, OtherMarks DEF IInv
    <3>5. QED
      BY Zenon, <3>2, <3>3, <3>4 DEF IInv
  <2>4. CASE e # d
    <3>1. /\ prv' = [prv EXCEPT ![d] = latest] /\ seen' = seen
          /\ op' = [op EXCEPT ![t].at = "test", ![t].layout = {d}]
      BY Zenon, <1>3, <2>1, <2>4 DEF get_converted_prv
    <3>2. /\ prv' \in [Descr -> Content] /\ prv'[d] = latest
          /\ \A c \in Descr : prv[c] = latest => prv'[c] = latest
      BY Zenon, <3>1 DEF IInv, TypeOK
    <3>3. PICK o \in OpRecord :
            /\ o.at = "test" /\ o.then = "done" /\ o.layout = {d} /\ op' = [op EXCEPT ![t] = o]
      <4>1. [Idle EXCEPT !.at = "test", !.layout = {d}] \in OpRecord
        BY Zenon DEF Idle, OpRecord, HeadNames
      <4>2. op' = [op EXCEPT ![t] = [Idle EXCEPT !.at = "test", !.layout = {d}]]
        BY Zenon, <1>1, <3>1 DEF IInv, TypeOK
      <4>3. QED
        BY Zenon, <4>1, <4>2 DEF Idle
    <3>4. op'[t] = o /\ (\A u \in Thread \ {t} : op'[u] = op[u]) /\ op' \in [Thread -> OpRecord]
      BY Zenon, <3>3 DEF IInv, TypeOK
    <3>5. LockHeld'
      BY <1>1, <2>2, <3>3, <3>4 DEF IInv, LockHeld, Idle
    <3>6. TypeOK' /\ LayoutKnown' /\ OneMode' /\ SeesLastWrite'
      BY Zenon, <2>2, <3>1, <3>2, <3>4 DEF IInv, TypeOK, LayoutKnown, OneMode, SeesLastWrite
    <3>7. HeadIsTrue'
      BY Zenon, <2>1, <2>2, <3>2 DEF IInv, HeadIsTrue
    <3>8. Converting(t)' /\ MarkIsTrue(t)' /\ SetIsTrue(t)'
      BY Zenon, <1>1, <1>3, <2>2, <3>2, <3>3, <3>4 DEF Converting, MarkIsTrue, SetIsTrue, AtPrv
    <3>9. ASSUME NEW u \in Thread \ {t} PROVE Converting(u)' /\ MarkIsTrue(u)' /\ SetIsTrue(u)'
      <4>1. op[u].at \notin {"to_prv", "test", "set"} /\ op[u].then # "to_prv"
        BY Zenon DEF IInv, Converting
      <4>2. Converting(u)' /\ SetIsTrue(u)'
        BY Zenon, <3>4, <4>1 DEF IInv, Converting, SetIsTrue
      <4>3. MarkIsTrue(u)'
        BY Zenon, <2>1, <2>2, <3>2, <3>4, OtherMarks DEF IInv
      <4>4. QED
        BY Zenon, <4>2, <4>3
    <3>10. QED
      BY Zenon, <3>5, <3>6, <3>7, <3>8, <3>9 DEF IInv
  <2>5. QED
    BY Zenon, <2>3, <2>4
<1>4. QED
  BY Zenon, <1>2, <1>3

\* The steps of a conversion that follow, without the lock.
LEMMA ConvertIInv ==
  ASSUME IInv, NEW t \in Thread, ConvertToPrv(t) \/ TestHead(t) \/ set_prv_descriptor(t)
  PROVE  IInv'
<1>1. /\ op[t].at \in {"to_prv", "test", "set"} /\ t = "solver" /\ ~gpu_mode
      /\ op[t] \in OpRecord /\ op \in [Thread -> OpRecord] /\ SetIsTrue(t)
      /\ head \in HeadNames /\ head # "UNINITIALIZED"
      /\ UNCHANGED <<gpu_mode, mtx, cpu, gpu, latest>>
  BY Zenon DEF ConvertToPrv, TestHead, set_prv_descriptor, places, IInv, TypeOK, Converting, SetIsTrue
<1>2. PICK d \in Descr : op[t].layout = {d}
  BY Zenon, <1>1 DEF IInv, Converting
<1>3. PICK o \in OpRecord :
        /\ op' = [op EXCEPT ![t] = o] /\ o.at \notin {"to_cpu", "mark"}
        /\ \/ ConvertToPrv(t) /\ o.at = "test" /\ o.layout = {d}
           \/ TestHead(t) /\ o.at = "set" /\ o.layout = {d} /\ o.head = NewHead(head)
           \/ set_prv_descriptor(t) /\ o = Idle
  <2>1. CASE ConvertToPrv(t)
    <3>1. [op[t] EXCEPT !.at = "test"] \in OpRecord
      BY Zenon, <1>1 DEF OpRecord
    <3>2. op' = [op EXCEPT ![t] = [op[t] EXCEPT !.at = "test"]]
      BY Zenon, <1>1, <2>1 DEF ConvertToPrv
    <3>3. QED
      BY Zenon, <1>1, <1>2, <2>1, <3>1, <3>2 DEF OpRecord
  <2>2. CASE TestHead(t)
    <3>1. PICK h \in HeadNames : h = NewHead(head)
      BY Zenon DEF NewHead, HeadNames
    <3>2. [op[t] EXCEPT !.at = "set", !.head = h] \in OpRecord
      BY Zenon, <1>1 DEF OpRecord
    <3>3. op' = [op EXCEPT ![t] = [op[t] EXCEPT !.at = "set", !.head = h]]
      BY Zenon, <1>1, <2>2, <3>1 DEF TestHead
    <3>4. QED
      BY <1>1, <1>2, <2>2, <3>1, <3>2, <3>3 DEF OpRecord
  <2>3. CASE set_prv_descriptor(t)
    BY Zenon, <2>3 DEF set_prv_descriptor, Idle, OpRecord, HeadNames
  <2>4. QED
    BY Zenon, <2>1, <2>2, <2>3
<1>4. op'[t] = o /\ (\A u \in Thread \ {t} : op'[u] = op[u]) /\ op' \in [Thread -> OpRecord]
  BY Zenon, <1>1, <1>3
<1>5. LockHeld'
  BY Zenon, <1>1, <1>3, <1>4 DEF IInv, LockHeld
<1>6. SUFFICES
        /\ prv' \in [Descr -> Content] /\ prv_descriptor' \in SUBSET Descr
        /\ head' \in HeadNames /\ head' # "UNINITIALIZED"
        /\ seen' \in [Thread -> SUBSET Content] /\ SeesLastWrite'
        /\ OneMode' /\ LayoutKnown' /\ HeadIsTrue'
        /\ Converting(t)' /\ SetIsTrue(t)'
        /\ prv_descriptor # {} /\ prv[Layout] = latest
             => prv_descriptor' # {} /\ (prv[Layout])' = latest
  <2>1. TypeOK'
    BY Zenon, <1>1, <1>4, <1>6 DEF IInv, TypeOK
  <2>2. MarkIsTrue(t)'
    BY Zenon, <1>3, <1>4 DEF MarkIsTrue
  <2>3. ASSUME NEW u \in Thread \ {t} PROVE Converting(u)' /\ MarkIsTrue(u)' /\ SetIsTrue(u)'
    <3>1. op[u].at \notin {"to_prv", "test", "set"} /\ op[u].then # "to_prv"
      BY Zenon, <1>1 DEF IInv, Converting
    <3>2. Converting(u)' /\ SetIsTrue(u)'
      BY <1>4, <3>1 DEF IInv, Converting, SetIsTrue
    <3>3. MarkIsTrue(u)'
      BY Zenon, <1>1, <1>4, <1>6, OtherMarks DEF IInv
    <3>4. QED
      BY Zenon, <3>2, <3>3
  <2>4. QED
    BY Zenon, <1>5, <1>6, <2>1, <2>2, <2>3 DEF IInv
<1>7. /\ prv \in [Descr -> Content] /\ prv_descriptor \in SUBSET Descr
      /\ seen \in [Thread -> SUBSET Content] /\ SeesLastWrite
      /\ OneMode /\ LayoutKnown /\ HeadIsTrue /\ cpu \in Content /\ latest \in Content
  BY Zenon DEF IInv, TypeOK
<1>8. CASE ConvertToPrv(t) /\ o.at = "test" /\ o.layout = {d}
  <2>1. /\ cpu = latest /\ prv' = [c \in Descr |-> IF c \in {d} THEN cpu ELSE prv[c]]
        /\ UNCHANGED <<head, prv_descriptor, seen>> /\ Layout' = Layout
    BY Zenon, <1>1, <1>2, <1>8 DEF ConvertToPrv, SetIsTrue, Layout
  <2>2. /\ prv' \in [Descr -> Content] /\ prv'[d] = latest
        /\ \A c \in Descr : prv[c] = latest => prv'[c] = latest
    BY Zenon, <1>7, <2>1
  <2>3. prv_descriptor # {} /\ prv[Layout] = latest => (prv[Layout])' = latest
    BY Zenon, <1>7, <2>1, <2>2, LayoutOf DEF LayoutKnown
  <2>4. OneMode' /\ LayoutKnown' /\ HeadIsTrue' /\ SeesLastWrite'
    BY Zenon, <1>1, <1>7, <2>1, <2>3 DEF OneMode, LayoutKnown, HeadIsTrue, SeesLastWrite
  <2>5. Converting(t)' /\ SetIsTrue(t)'
    BY Zenon, <1>1, <1>4, <1>8, <2>1, <2>2 DEF Converting, SetIsTrue
  <2>6. QED
    BY Zenon, <1>1, <1>7, <2>1, <2>2, <2>3, <2>4, <2>5
<1>9. CASE TestHead(t) /\ o.at = "set" /\ o.layout = {d} /\ o.head = NewHead(head)
  <2>1. UNCHANGED <<head, prv, prv_descriptor, seen>> /\ Layout' = Layout
    BY Zenon, <1>9 DEF TestHead, places, Layout
  <2>2. prv[d] = latest
    BY Zenon, <1>1, <1>2, <1>9 DEF TestHead, SetIsTrue
  <2>3. OneMode' /\ LayoutKnown' /\ HeadIsTrue' /\ SeesLastWrite'
    BY Zenon, <1>1, <1>7, <2>1 DEF OneMode, LayoutKnown, HeadIsTrue, SeesLastWrite
  <2>4. /\ o.head \in {"HEAD_AT_PRV", "SYNCED_PRV"}
        /\ o.head = "SYNCED_PRV" => cpu = latest
    BY Zenon, <1>1, <1>7, <1>9 DEF NewHead, HeadIsTrue, OneMode, HeadNames
  <2>5. Converting(t)' /\ SetIsTrue(t)'
    BY Zenon, <1>1, <1>4, <1>9, <2>1, <2>2, <2>4 DEF Converting, SetIsTrue
  <2>6. QED
    BY Zenon, <1>1, <1>7, <2>1, <2>3, <2>5
<1>10. CASE set_prv_descriptor(t) /\ o = Idle
  <2>1. /\ head' = op[t].head /\ prv_descriptor' = {d} /\ prv' = prv
        /\ seen' = [seen EXCEPT ![t] = {prv[d]}] /\ Layout' = d
    BY Zenon, <1>2, <1>10 DEF set_prv_descriptor, Sees, places, Layout
  <2>2. /\ prv[d] = latest /\ head' \in {"HEAD_AT_PRV", "SYNCED_PRV"}
        /\ head' = "SYNCED_PRV" => cpu = latest
    BY Zenon, <1>1, <1>2, <1>10, <2>1 DEF set_prv_descriptor, SetIsTrue
  <2>3. (prv[Layout])' = latest
    BY Zenon, <2>1, <2>2
  <2>4. OneMode' /\ LayoutKnown' /\ HeadIsTrue'
    BY Zenon, <1>1, <2>1, <2>2, <2>3 DEF OneMode, LayoutKnown, HeadIsTrue, AtPrv
  <2>5. seen' \in [Thread -> SUBSET Content] /\ SeesLastWrite'
    BY Zenon, <1>1, <1>7, <2>1, <2>2 DEF SeesLastWrite
  <2>6. Converting(t)' /\ SetIsTrue(t)'
    BY <1>4, <1>10 DEF Converting, SetIsTrue, Idle
  <2>7. QED
    BY Zenon, <1>7, <2>1, <2>2, <2>3, <2>4, <2>5, <2>6 DEF HeadNames
<1>11. QED
  BY Zenon, <1>3, <1>8, <1>9, <1>10

------------------------------------------------------------------------------
\* The invariant holds of a blob's memory whatever the threads do with it, and encoding
\* and decoding leave the memory alone.
THEOREM Invariance == Spec => []IInv
<1>1. Init => IInv
  BY Zenon, InitIInv DEF Init
<1>2. IInv /\ [Next]_vars => IInv'
  <2> SUFFICES ASSUME IInv, [Next]_vars PROVE IInv'
    BY Zenon
  <2>1. CASE UNCHANGED memory
    <3>1. UNCHANGED <<gpu_mode, head, mtx, cpu, gpu, prv, prv_descriptor, op, seen, latest>>
      BY Zenon, <2>1 DEF memory, places
    <3>2. TypeOK' /\ LockHeld' /\ OneMode' /\ LayoutKnown'
      BY Zenon, <3>1 DEF IInv, TypeOK, LockHeld, OneMode, LayoutKnown
    <3>3. HeadIsTrue' /\ SeesLastWrite' /\ Layout' = Layout
      BY Zenon, <3>1 DEF IInv, HeadIsTrue, SeesLastWrite, Layout
    <3>4. \A t \in Thread : Converting(t)' /\ MarkIsTrue(t)' /\ SetIsTrue(t)'
      BY Zenon, <3>1, <3>3, OtherConverts, OtherMarks DEF IInv
    <3>5. QED
      BY Zenon, <3>2, <3>3, <3>4 DEF IInv
  <2>2. CASE Layers
    BY Zenon, <2>2, GpuDataIInv, GetConvertedIInv, ConvertIInv DEF Layers, Thread
  <2>3. ASSUME NEW t \in Thread, Read(t) PROVE IInv'
    <3>1. CASE cpu_data(t)
      BY <3>1, EnterIInv DEF cpu_data
    <3>2. QED
      BY Zenon, <2>3, <3>1, ToCpuIInv, MarkIInv DEF Read
  <2>4. QED
    BY Zenon, <2>1, <2>2, <2>3, WriteIInv DEF Next, vars, MemoryNext, encode, decode
<1>3. QED
  BY <1>1, <1>2, PTL DEF Spec

\* Every read returns what was written last (syncedmem.cpp:25-117, mkl_memory.cpp:167-293).
THEOREM ReadsLastWrite == Spec => []SeesLastWrite
BY Invariance, PTL DEF IInv

\* No write is lost in a later conversion: head names only places that are up to date
\* (syncedmem.cpp:25-89, 175-203).
THEOREM HeadTells == Spec => []HeadIsTrue
BY Invariance, PTL DEF IInv

------------------------------------------------------------------------------
(***************************************************************************)
(* Messages, as far as they go without the sums of bits: the elements that *)
(* a message brings.                                                       *)
(***************************************************************************)
Held(part) == Cardinality(Elements(part))

MessageInv ==
  \A msg \in packet :
    /\ msg.part \in Nat /\ msg.size \in 0..8
    /\ msg.size = 0 =>
         /\ msg.bytes = Held(msg.part) * SizeofDtype
         /\ msg.data = [i \in 1..Held(msg.part) |-> msg.source[msg.part * elements_per_part + i]]
    /\ msg.size # 0 => msg.bytes = (Held(msg.part) * msg.size + CharBit - 1) \div CharBit

\* Decoding writes into the elements of the message's own part only, also when the
\* message is compressed and its length is taken for that of an uncompressed one
\* (BlobCodec.cpp:107-141, 169-235).
OwnPartOnly ==
  [][\A msg \in packet : decode(msg) =>
       \A k \in Index \ Elements(msg.part) : dest'[k] = dest[k]]_vars

\* An uncompressed message brings all the elements of its part, each to its place
\* (BlobCodec.cpp:38-72, 169-235).
PlainExact ==
  [][\A msg \in packet : decode(msg) /\ msg.size = 0 =>
       \A k \in Index \cap Elements(msg.part) : dest'[k] = msg.source[k]]_vars

\* The elements of a part and how many they are.
LEMMA Extent ==
  ASSUME NEW part \in Nat
  PROVE  LET first == part * elements_per_part
         IN  /\ first \in Nat /\ Held(part) \in Nat
             /\ \A k \in Int : k \in Elements(part) <=> k - first \in 1..Held(part)
<1>1. PICK first \in Nat : first = part * elements_per_part
  BY CodecAssumption
<1>2. PICK end \in Int :
        end = IF (part + 1) * elements_per_part < Count THEN (part + 1) * elements_per_part ELSE Count
  BY CodecAssumption
<1>3. Elements(part) = (first + 1)..end
  BY Zenon, <1>1, <1>2 DEF Elements
<1>4. Held(part) = IF first + 1 > end THEN 0 ELSE end - (first + 1) + 1
  BY <1>3, FS_Interval DEF Held
<1>5. \A k \in Int : k \in Elements(part) <=> k - first \in 1..Held(part)
  BY <1>3, <1>4
<1>6. QED
  BY <1>1, <1>4, <1>5

\* A message never brings more elements than its part has, and all of them when it is
\* not compressed.
LEMMA Brings ==
  ASSUME MessageInv, NEW msg \in packet
  PROVE  /\ Received(msg) \in Nat /\ Received(msg) <= Held(msg.part)
         /\ msg.size = 0 => Received(msg) = Held(msg.part)
<1>1. PICK n \in Nat : n = Held(msg.part)
  BY Zenon, Extent DEF MessageInv
<1>2. PICK b : b = msg.bytes
  BY Zenon
<1>3. CASE msg.size = 0
  <2>1. b = n * 4
    BY Zenon, <1>1, <1>2, <1>3 DEF MessageInv, SizeofDtype
  <2>2. b % 4 = 0 /\ b \div 4 = n
    BY <2>1
  <2>3. QED
    BY <1>1, <1>2, <2>2 DEF Received, SizeofDtype
<1>4. CASE msg.size # 0
  <2>1. PICK z \in 0..8 : z = msg.size
    BY Zenon DEF MessageInv
  <2>2. PICK m \in Nat : m = n * z /\ m <= n * 8
    <3>1. n * z \in Nat /\ n * z <= n * 8
      OBVIOUS
    <3>2. QED
      BY Zenon, <3>1
  <2>3. b = (m + 8 - 1) \div 8
    <3>1. b = (Held(msg.part) * msg.size + CharBit - 1) \div CharBit
      BY Zenon, <1>2, <1>4 DEF MessageInv
    <3>2. QED
      BY Zenon, <1>1, <2>1, <2>2, <3>1 DEF CharBit
  <2>4. b \in Nat /\ b <= n
    BY <2>2, <2>3
  <2>5. b \div 4 \in Nat /\ b \div 4 <= n
    BY <2>4
  <2>6. QED
    BY <1>1, <1>2, <1>4, <2>5 DEF Received, SizeofDtype
<1>5. QED
  BY Zenon, <1>3, <1>4

\* What is under way is what encode() made.
LEMMA Messages == Spec => []MessageInv
<1>1. Init => MessageInv
  BY Zenon DEF Init, MessageInv
<1>2. MessageInv /\ [Next]_vars => MessageInv'
  <2> SUFFICES ASSUME MessageInv, [Next]_vars PROVE MessageInv'
    BY Zenon
  <2>1. ASSUME NEW part \in Parts, NEW size \in Sizes, encode(part, size) PROVE MessageInv'
    <3>1. PICK data : packet' = {IF size = 0 THEN encode_simple(data, part)
                                             ELSE encode_averaging(data, part, size)}
      BY Zenon, <2>1 DEF encode
    <3>2. part \in Nat /\ size \in 0..8
      BY CodecAssumption DEF Parts
    <3>3. CASE size = 0
      BY <3>1, <3>2, <3>3 DEF MessageInv, encode_simple, Held
    <3>4. CASE size # 0
      BY <3>1, <3>2, <3>4 DEF MessageInv, encode_averaging, Held
    <3>5. QED
      BY Zenon, <3>3, <3>4
  <2>2. CASE packet' \in {packet, {}}
    BY Zenon, <2>2 DEF MessageInv
  <2>3. QED
    BY Zenon, <2>1, <2>2 DEF Next, vars, decode
<1>3. QED
  BY <1>1, <1>2, PTL DEF Spec

\* No part is written over by another's message (BlobCodec.cpp:107-141, 169-235).
THEOREM PartsApart == Spec => OwnPartOnly
<1>1. ASSUME MessageInv, NEW msg \in packet, decode(msg), NEW k \in Index \ Elements(msg.part)
      PROVE  dest'[k] = dest[k]
  <2>1. k \in Int
    BY CodecAssumption
  <2>2. PICK first \in Nat : /\ first = msg.part * elements_per_part
                             /\ k - first \notin 1..Held(msg.part)
    BY Zenon, <1>1, <2>1, Extent DEF MessageInv
  <2>3. k - first \notin 1..Received(msg)
    <3>1. PICK n \in Nat, m \in Nat : n = Held(msg.part) /\ m = Received(msg) /\ m <= n
      BY Zenon, <1>1, Brings, Extent DEF MessageInv
    <3>2. QED
      BY <2>1, <2>2, <3>1
  <2>4. QED
    BY Zenon, <1>1, <2>2, <2>3 DEF decode
<1>2. MessageInv /\ [Next]_vars =>
        [\A msg \in packet : decode(msg) =>
           \A k \in Index \ Elements(msg.part) : dest'[k] = dest[k]]_vars
  BY Zenon, <1>1
<1>3. QED
  BY Messages, <1>2, PTL DEF Spec, OwnPartOnly

\* What the comm thread read arrives (BlobCodec.cpp:38-72, 169-235).
THEOREM PlainParts == Spec => PlainExact
<1>1. ASSUME MessageInv, NEW msg \in packet, decode(msg), msg.size = 0,
             NEW k \in Index \cap Elements(msg.part)
      PROVE  dest'[k] = msg.source[k]
  <2>1. k \in Int
    BY CodecAssumption
  <2>2. PICK first \in Nat : /\ first = msg.part * elements_per_part
                             /\ k - first \in 1..Held(msg.part)
    BY Zenon, <1>1, <2>1, Extent DEF MessageInv
  <2>3. k - first \in 1..Received(msg)
    BY Zenon, <1>1, <2>2, Brings
  <2>4. Value(msg, k - first) = msg.source[first + (k - first)]
    BY Zenon, <1>1, <2>2 DEF Value, MessageInv
  <2>5. first + (k - first) = k
    BY <2>1
  <2>6. dest'[k] = Value(msg, k - first)
    BY Zenon, <1>1, <2>2, <2>3 DEF decode
  <2>7. QED
    BY Zenon, <2>4, <2>5, <2>6
<1>2. MessageInv /\ [Next]_vars =>
        [\A msg \in packet : decode(msg) /\ msg.size = 0 =>
           \A k \in Index \cap Elements(msg.part) : dest'[k] = msg.source[k]]_vars
  BY Zenon, <1>1
<1>3. QED
  BY Messages, <1>2, PTL DEF Spec, PlainExact
==============================================================================
