-------------------------- MODULE IpcClientProofs --------------------------
(***************************************************************************)
(* Proofs about IpcClient, for every set of tasks and any number of calls. *)
(*                                                                         *)
(* The argument: s_ipc_mutex makes the caller that has published unique,   *)
(* so at most one request is on its way, and it is that caller's           *)
(* (RequestInv); since an acknowledgement is given only for a request that *)
(* was on its way, it is taken by the caller of that request (AckInv); and *)
(* a call whose request has not been picked up has not begun (FreshInv).   *)
(***************************************************************************)
EXTENDS IpcClient, TLAPS

\* The caller holds s_ipc_mutex.
HoldPcs == {"publish", "give_sem", "take_ack", "give_mutex"}

MutexInv == \A t \in Tasks : callPc[t] \in HoldPcs <=> s_ipc_mutex = t

\* A call in progress is the last one its task asked for.
AskedInv == \A t \in Tasks : /\ Len(asked[t]) <= MaxCalls
                             /\ callPc[t] # "out" => Len(asked[t]) > 0

\* The globals hold the holder's function until it is acknowledged.
FuncInv == \A t \in Tasks : callPc[t] \in {"give_sem", "take_ack"} => s_func = LastArg(t)

Picked(c) == ipcPc[c] \in {"read", "ack_start"}

\* Every request on its way is the holder's, and has not been acknowledged.
RequestInv ==
  \A c \in CPU :
    /\ s_ipc_sem[c] = 1 \/ Picked(c) => s_ipc_ack = 0 /\ s_ipc_mutex \in Tasks
    /\ \A t \in Tasks : (s_ipc_sem[c] = 1 \/ Picked(c)) /\ s_ipc_mutex = t
                          => callPc[t] = "take_ack" /\ Last(t).cpu = c
    /\ s_ipc_sem[c] = 1 => ~ Picked(c)
    /\ \A t \in Tasks : ipcPc[c] = "ack_start" /\ s_ipc_mutex = t => ipcFunc[c] = LastArg(t)

HasBegun(t) == \A c \in CPU : Last(t).cpu = c => LastArg(t) \in Begun(c)

\* An acknowledgement that was not taken is for the holder.
AckInv ==
  s_ipc_ack = 1 => /\ s_ipc_mutex \in Tasks
                   /\ \A t \in Tasks : s_ipc_mutex = t => callPc[t] = "take_ack" /\ HasBegun(t)

\* A call that was not acknowledged has not begun; one that was has.
FreshInv ==
  \A t \in Tasks :
    /\ (callPc[t] \in {"take_mutex", "publish", "give_sem"} \/ (callPc[t] = "take_ack" /\ s_ipc_ack = 0))
         => \A c \in CPU : LastArg(t) \notin Begun(c)
    /\ callPc[t] \in {"out", "give_mutex"} /\ Len(asked[t]) > 0 => HasBegun(t)

\* What runs is a call's argument, never the None of a CPU that was not called yet.
RunningInv == \A c \in CPU : ipcPc[c] = "run" => ipcFunc[c] \in Arg

Inv ==
  /\ TypeOK /\ s_ipc_wait = "start"
  /\ MutexInv /\ AskedInv /\ FuncInv /\ RequestInv /\ AckInv /\ FreshInv /\ RunningInv
  /\ RunsOnceWhereAsked
-----------------------------------------------------------------------------
USE TasksAssumption, MaxCallsAssumption
    DEF CPU, CallPcs, IpcPcs, HoldPcs, WaitFor, Results

(* No call has been made and nothing has run (ipc.c:76-86).                *)
LEMMA InitInv == Init => Inv
<1> SUFFICES ASSUME Init PROVE Inv
  OBVIOUS
<1>1. TypeOK
  BY DEF Init, IpcInit, TypeOK, IpcTypeOK
<1>2. \A c \in CPU : Begun(c) = {} /\ Ended(c) = {} /\ Len(ran[c]) = 0
  BY DEF Init, IpcInit, Begun, Ended
<1>3. MutexInv /\ AskedInv /\ FuncInv /\ RequestInv /\ AckInv /\ FreshInv
  BY DEF Init, IpcInit, MutexInv, AskedInv, FuncInv, RequestInv, Picked, AckInv, FreshInv
<1>4. RunsOnceWhereAsked /\ RunningInv
  BY <1>2 DEF Init, IpcInit, RunsOnceWhereAsked, RunningInv
<1> QED
  BY <1>1, <1>3, <1>4 DEF Inv, Init, IpcInit

(* What has begun and ended is changed by ipc tasks only.                  *)
LEMMA BegunUnchanged ==
  ASSUME ipcPc' = ipcPc, ipcFunc' = ipcFunc, ran' = ran
  PROVE  \A c \in CPU : Begun(c)' = Begun(c) /\ Ended(c)' = Ended(c)
  BY DEF Begun, Ended

(* What has begun is a call's argument.                                    *)
LEMMA BegunArgs == ASSUME TypeOK, RunningInv, NEW c \in CPU PROVE \A a \in Begun(c) : a \in Arg
<1>1. ran[c] \in Seq(Arg)
  BY DEF TypeOK
<1>2. \A i \in 1 .. Len(ran[c]) : ran[c][i] \in Arg
  BY <1>1
<1> QED
  BY <1>2 DEF Begun, RunningInv

(* The CPU of the call a task is making is one of the two.                 *)
LEMMA LastCpu == ASSUME TypeOK, NEW u \in Tasks, Len(asked[u]) > 0 PROVE Last(u).cpu \in CPU
<1> DEFINE E == [cpu : CPU, wait_for : WaitFor]
<1>1. asked[u] \in Seq(E)
  BY DEF TypeOK
<1>2. Len(asked[u]) \in 1 .. Len(asked[u])
  BY <1>1
<1>3. asked[u][Len(asked[u])] \in E
  <2> HIDE DEF E
  <2> QED
    BY <1>1, <1>2
<1> QED
  BY <1>3 DEF Last

(* The steps of a call in progress (ipc.c:97-106).                         *)
LEMMA CallerInv ==
  ASSUME Inv, NEW t \in Tasks,
         TakeMutex(t) \/ Publish(t) \/ GiveSem(t) \/ TakeAck(t) \/ Return(t)
  PROVE  Inv'
<1>1. /\ ipcPc' = ipcPc /\ ipcFunc' = ipcFunc /\ ran' = ran /\ asked' = asked /\ schedState' = schedState
      /\ result' \in [Tasks -> Results]
  BY DEF Inv, TypeOK, TakeMutex, Publish, GiveSem, TakeAck, Return, clientVars,
         CallTakeMutex, CallPublish, CallGiveSem, CallTakeAck, CallGiveMutex
<1>2. \A c \in CPU : Begun(c)' = Begun(c) /\ Ended(c)' = Ended(c)
  BY <1>1, BegunUnchanged
<1>3. \A u \in Tasks : Last(u)' = Last(u) /\ LastArg(u)' = LastArg(u)
  BY <1>1 DEF Last, LastArg
<1>4. RunsOnceWhereAsked' /\ RunningInv'
  BY <1>1, <1>2 DEF Inv, RunsOnceWhereAsked, RunningInv
<1> USE DEF CallStep
<1>10. \A u \in Tasks : Len(asked[u]) > 0 => LastArg(u) \in Arg
  BY DEF Inv, TypeOK, AskedInv, Arg, LastArg
<1>11. \A u \in Tasks : Len(asked[u]) > 0 => Last(u).cpu \in CPU
  BY LastCpu DEF Inv
<1>5. CASE TakeMutex(t)
  <2>1. TypeOK' /\ s_ipc_wait' = "start"
    BY <1>1, <1>2, <1>3, <1>5 DEF TakeMutex, CallTakeMutex, Inv, TypeOK, IpcTypeOK, AskedInv
  <2>2. MutexInv' /\ AskedInv' /\ FuncInv'
    BY <1>1, <1>2, <1>3, <1>5 DEF TakeMutex, CallTakeMutex, Inv, TypeOK, IpcTypeOK, MutexInv, AskedInv, FuncInv
  <2>3. RequestInv'
    BY <1>1, <1>2, <1>3, <1>5, <1>11 DEF TakeMutex, CallTakeMutex, Inv, TypeOK, IpcTypeOK, MutexInv, AckInv, RequestInv, Picked
  <2>4. AckInv'
    BY <1>1, <1>2, <1>3, <1>5 DEF TakeMutex, CallTakeMutex, Inv, TypeOK, IpcTypeOK, MutexInv, AckInv, HasBegun
  <2>5. FreshInv'
    <3>1. \A u \in Tasks : HasBegun(u)' <=> HasBegun(u)
      BY <1>2, <1>3 DEF HasBegun
    <3> QED
      BY <1>1, <1>2, <1>3, <1>5, <3>1 DEF TakeMutex, CallTakeMutex, Inv, TypeOK, IpcTypeOK, AckInv, FreshInv, MutexInv
  <2> QED
    BY <1>4, <2>1, <2>2, <2>3, <2>4, <2>5 DEF Inv
<1>6. CASE Publish(t)
  <2>1. TypeOK' /\ s_ipc_wait' = "start"
    BY <1>1, <1>2, <1>3, <1>6, <1>10, <1>11 DEF Publish, CallPublish, WaitMode, Inv, TypeOK, IpcTypeOK, AskedInv
  <2>2. MutexInv' /\ AskedInv' /\ FuncInv'
    BY <1>1, <1>2, <1>3, <1>6 DEF Publish, CallPublish, WaitMode, Inv, TypeOK, IpcTypeOK, MutexInv, AskedInv, FuncInv
  <2>3. RequestInv'
    BY <1>1, <1>2, <1>3, <1>6, <1>11 DEF Publish, CallPublish, WaitMode, Inv, TypeOK, IpcTypeOK, MutexInv, AckInv, RequestInv, Picked
  <2>4. AckInv'
    BY <1>1, <1>2, <1>3, <1>6 DEF Publish, CallPublish, WaitMode, Inv, TypeOK, IpcTypeOK, MutexInv, AckInv, HasBegun
  <2>5. FreshInv'
    <3>1. \A u \in Tasks : HasBegun(u)' <=> HasBegun(u)
      BY <1>2, <1>3 DEF HasBegun
    <3> QED
      BY <1>1, <1>2, <1>3, <1>6, <3>1 DEF Publish, CallPublish, WaitMode, Inv, TypeOK, IpcTypeOK, AckInv, FreshInv, MutexInv
  <2> QED
    BY <1>4, <2>1, <2>2, <2>3, <2>4, <2>5 DEF Inv
<1>7. CASE GiveSem(t)
  <2>1. TypeOK' /\ s_ipc_wait' = "start"
    BY <1>1, <1>2, <1>3, <1>7 DEF GiveSem, CallGiveSem, Inv, TypeOK, IpcTypeOK, AskedInv
  <2>2. MutexInv' /\ AskedInv' /\ FuncInv'
    BY <1>1, <1>2, <1>3, <1>7 DEF GiveSem, CallGiveSem, Inv, TypeOK, IpcTypeOK, MutexInv, AskedInv, FuncInv
  <2>3. RequestInv'
    BY <1>1, <1>2, <1>3, <1>7, <1>11 DEF GiveSem, CallGiveSem, Inv, TypeOK, IpcTypeOK, MutexInv, AckInv, RequestInv, Picked
  <2>4. AckInv'
    BY <1>1, <1>2, <1>3, <1>7 DEF GiveSem, CallGiveSem, Inv, TypeOK, IpcTypeOK, MutexInv, AckInv, HasBegun
  <2>5. FreshInv'
    <3>1. \A u \in Tasks : HasBegun(u)' <=> HasBegun(u)
      BY <1>2, <1>3 DEF HasBegun
    <3>2. /\ callPc[t] = "give_sem" /\ callPc' = [callPc EXCEPT ![t] = "take_ack"]
          /\ s_ipc_ack' = s_ipc_ack /\ callPc \in [Tasks -> CallPcs] /\ FreshInv
      BY <1>7 DEF GiveSem, CallGiveSem, Inv, TypeOK, IpcTypeOK
    <3> QED
      BY <1>1, <1>2, <1>3, <3>1, <3>2 DEF FreshInv
  <2> QED
    BY <1>4, <2>1, <2>2, <2>3, <2>4, <2>5 DEF Inv
<1>8. CASE TakeAck(t)
  <2>1. TypeOK' /\ s_ipc_wait' = "start"
    BY <1>1, <1>2, <1>3, <1>8 DEF TakeAck, CallTakeAck, Inv, TypeOK, IpcTypeOK, AskedInv
  <2>2. MutexInv' /\ AskedInv' /\ FuncInv'
    BY <1>1, <1>2, <1>3, <1>8 DEF TakeAck, CallTakeAck, Inv, TypeOK, IpcTypeOK, MutexInv, AskedInv, FuncInv
  <2>3. RequestInv'
    BY <1>1, <1>2, <1>3, <1>8, <1>11 DEF TakeAck, CallTakeAck, Inv, TypeOK, IpcTypeOK, MutexInv, AckInv, RequestInv, Picked
  <2>4. AckInv'
    BY <1>1, <1>2, <1>3, <1>8 DEF TakeAck, CallTakeAck, Inv, TypeOK, IpcTypeOK, MutexInv, AckInv, HasBegun
  <2>5. FreshInv'
    <3>1. \A u \in Tasks : HasBegun(u)' <=> HasBegun(u)
      BY <1>2, <1>3 DEF HasBegun
    <3> QED
      BY <1>1, <1>2, <1>3, <1>8, <3>1 DEF TakeAck, CallTakeAck, Inv, TypeOK, IpcTypeOK, AckInv, FreshInv, MutexInv
  <2> QED
    BY <1>4, <2>1, <2>2, <2>3, <2>4, <2>5 DEF Inv
<1>9. CASE Return(t)
  <2>1. TypeOK' /\ s_ipc_wait' = "start"
    BY <1>1, <1>2, <1>3, <1>9 DEF Return, CallGiveMutex, Inv, TypeOK, IpcTypeOK, AskedInv
  <2>2. MutexInv' /\ AskedInv' /\ FuncInv'
    BY <1>1, <1>2, <1>3, <1>9 DEF Return, CallGiveMutex, Inv, TypeOK, IpcTypeOK, MutexInv, AskedInv, FuncInv
  <2>3. RequestInv'
    BY <1>1, <1>2, <1>3, <1>9, <1>11 DEF Return, CallGiveMutex, Inv, TypeOK, IpcTypeOK, MutexInv, AckInv, RequestInv, Picked
  <2>4. AckInv'
    BY <1>1, <1>2, <1>3, <1>9 DEF Return, CallGiveMutex, Inv, TypeOK, IpcTypeOK, MutexInv, AckInv, HasBegun
  <2>5. FreshInv'
    <3>1. \A u \in Tasks : HasBegun(u)' <=> HasBegun(u)
      BY <1>2, <1>3 DEF HasBegun
    <3> QED
      BY <1>1, <1>2, <1>3, <1>9, <3>1 DEF Return, CallGiveMutex, Inv, TypeOK, IpcTypeOK, AckInv, FreshInv, MutexInv
  <2> QED
    BY <1>4, <2>1, <2>2, <2>3, <2>4, <2>5 DEF Inv
<1> QED
  BY <1>5, <1>6, <1>7, <1>8, <1>9

(* A new call, or one of the two early returns (ipc.c:88-96, 108-117).     *)
LEMMA CallInv ==
  ASSUME Inv, NEW t \in Tasks, NEW cpu_id \in CpuIds, NEW w \in WaitFor, Call(t, cpu_id, w)
  PROVE  Inv'
<1>1. /\ ipcPc' = ipcPc /\ ipcFunc' = ipcFunc /\ ran' = ran /\ schedState' = schedState
      /\ UNCHANGED ipcShared /\ TypeOK /\ callPc[t] = "out" /\ Len(asked[t]) < MaxCalls
      /\ result' \in [Tasks -> Results]
  BY DEF Inv, TypeOK, Call
<1>2. \A c \in CPU : Begun(c)' = Begun(c) /\ Ended(c)' = Ended(c)
  BY <1>1, BegunUnchanged
<1>3. CASE callPc' = callPc /\ asked' = asked
  <2>1. \A u \in Tasks : Last(u)' = Last(u) /\ LastArg(u)' = LastArg(u)
    BY <1>3 DEF Last, LastArg
  <2>2. \A u \in Tasks : HasBegun(u)' <=> HasBegun(u)
    BY <1>2, <2>1 DEF HasBegun
  <2>3. TypeOK' /\ MutexInv' /\ AskedInv' /\ FuncInv' /\ RequestInv' /\ AckInv' /\ FreshInv'
    BY <1>1, <1>2, <1>3, <2>1, <2>2
       DEF Inv, TypeOK, IpcTypeOK, ipcShared, MutexInv, AskedInv, FuncInv, RequestInv, Picked, AckInv, FreshInv
  <2>4. RunsOnceWhereAsked' /\ RunningInv'
    BY <1>1, <1>2, <1>3 DEF Inv, RunsOnceWhereAsked, RunningInv
  <2> QED
    BY <1>1, <2>3, <2>4 DEF Inv, ipcShared
<1>4. ASSUME cpu_id \in CPU,
             callPc' = [callPc EXCEPT ![t] = "take_mutex"],
             asked' = [asked EXCEPT ![t] = Append(@, [cpu |-> cpu_id, wait_for |-> w])]
      PROVE  Inv'
  <2> DEFINE e == [cpu |-> cpu_id, wait_for |-> w]
             E == [cpu : CPU, wait_for : WaitFor]
  <2>1. asked \in [Tasks -> Seq(E)] /\ e \in E
    BY <1>1, <1>4 DEF TypeOK
  <2>2. /\ asked' \in [Tasks -> Seq(E)]
        /\ Len(asked'[t]) = Len(asked[t]) + 1 /\ Len(asked[t]) \in Nat
        /\ \A i \in 1 .. Len(asked[t]) : asked'[t][i] = asked[t][i]
        /\ \A u \in Tasks \ {t} : asked'[u] = asked[u]
    <3> HIDE DEF E, e
    <3> QED
      BY <1>4, <2>1 DEF e
  <2>3. \A u \in Tasks \ {t} : Last(u)' = Last(u) /\ LastArg(u)' = LastArg(u)
    BY <2>2 DEF Last, LastArg
  <2>4. \A u \in Tasks \ {t} : HasBegun(u)' <=> HasBegun(u)
    BY <1>2, <2>3 DEF HasBegun
  <2>5. \A c \in CPU : LastArg(t)' \notin Begun(c)'
    BY <1>2, <2>2 DEF Inv, RunsOnceWhereAsked, LastArg
  <2>6. TypeOK'
    BY <1>1, <1>4, <2>2 DEF TypeOK, IpcTypeOK, ipcShared
  <2>7. MutexInv' /\ AskedInv' /\ FuncInv' /\ RequestInv' /\ AckInv'
    BY <1>1, <1>2, <1>4, <2>2, <2>3, <2>4
       DEF Inv, TypeOK, IpcTypeOK, ipcShared, MutexInv, AskedInv, FuncInv, RequestInv, Picked, AckInv
  <2>8. FreshInv'
    BY <1>1, <1>2, <1>4, <2>2, <2>3, <2>4, <2>5 DEF Inv, TypeOK, IpcTypeOK, ipcShared, FreshInv
  <2>9. RunsOnceWhereAsked' /\ RunningInv'
    <3>1. \A u \in Tasks : \A i \in 1 .. Len(asked[u]) : i \in 1 .. Len(asked'[u]) /\ asked'[u][i] = asked[u][i]
      <4> SUFFICES ASSUME NEW u \in Tasks, NEW i \in 1 .. Len(asked[u])
                   PROVE  i \in 1 .. Len(asked'[u]) /\ asked'[u][i] = asked[u][i]
        OBVIOUS
      <4>1. CASE u = t
        <5>1. i \in 1 .. Len(asked[t])
          BY <4>1
        <5> QED
          BY <2>2, <4>1, <5>1
      <4>2. CASE u # t
        BY <2>2, <4>2
      <4> QED
        BY <4>1, <4>2
    <3>2. \A c \in CPU : \A a \in Begun(c) : a \in Arg
      BY BegunArgs DEF Inv
    <3>3. \A c \in CPU : \A a \in Begun(c) : a[1] \in Tasks
      BY <3>2 DEF Arg
    <3>4. RunningInv'
      BY <1>1 DEF Inv, RunningInv
    <3>5. ASSUME NEW c \in CPU
          PROVE  \A a \in Begun(c)' : a[2] \in 1 .. Len(asked'[a[1]]) /\ asked'[a[1]][a[2]].cpu = c
      BY <1>2, <3>1, <3>3 DEF Inv, RunsOnceWhereAsked
    <3> QED
      BY <1>1, <1>2, <3>4, <3>5 DEF Inv, RunsOnceWhereAsked
  <2> QED
    BY <1>1, <2>6, <2>7, <2>8, <2>9 DEF Inv, ipcShared
<1> QED
  BY <1>3, <1>4 DEF Call, CallStep

(* The ipc task of a CPU (ipc.c:50-71).                                    *)
LEMMA IpcTaskInv ==
  ASSUME Inv, NEW k \in CPU, IpcTaskNext(k)
  PROVE  Inv'
<1>1. /\ asked' = asked /\ schedState' = schedState /\ result' = result /\ callPc' = callPc
      /\ s_ipc_mutex' = s_ipc_mutex /\ s_func' = s_func /\ s_ipc_wait' = s_ipc_wait
  BY DEF IpcTaskNext, TaskTakeSem, TaskReadFunc, TaskAckStart, TaskRunFunc, TaskAckEnd, clientVars,
         IpcTakeSem, IpcReadFunc, IpcAckStart, IpcAckEnd, ipcShared
<1>2. \A u \in Tasks : Last(u)' = Last(u) /\ LastArg(u)' = LastArg(u)
  BY <1>1 DEF Last, LastArg
<1>3. s_ipc_wait' = "start" /\ MutexInv' /\ AskedInv' /\ FuncInv'
  BY <1>1, <1>2 DEF Inv, MutexInv, AskedInv, FuncInv
<1>4. \A u \in Tasks : LastArg(u) \in Tasks \X Nat /\ LastArg(u)[1] = u
  BY DEF Inv, TypeOK, LastArg
<1> USE DEF IpcStep
<1>5. CASE TaskTakeSem(k)
  <2>1. /\ ran' = ran /\ ipcFunc' = ipcFunc /\ s_ipc_ack' = s_ipc_ack /\ ipcPc[k] = "take_sem" /\ s_ipc_sem[k] = 1
        /\ ipcPc' = [ipcPc EXCEPT ![k] = "read"] /\ s_ipc_sem' = [s_ipc_sem EXCEPT ![k] = 0]
    BY <1>5 DEF TaskTakeSem, IpcTakeSem, clientVars
  <2>2. TypeOK'
    BY <1>1, <2>1 DEF Inv, TypeOK, IpcTypeOK
  <2>3. \A c \in CPU : (ipcPc'[c] = "run") <=> (ipcPc[c] = "run")
    BY <2>1 DEF Inv, TypeOK, IpcTypeOK
  <2>4. \A c \in CPU : Begun(c)' = Begun(c) /\ Ended(c)' = Ended(c)
    BY <2>1, <2>3 DEF Begun, Ended
  <2>5. \A u \in Tasks : HasBegun(u)' <=> HasBegun(u)
    BY <1>2, <2>4 DEF HasBegun
  <2>6. RequestInv'
    BY <1>1, <1>2, <2>1 DEF Inv, TypeOK, IpcTypeOK, RequestInv, Picked
  <2>7. AckInv' /\ FreshInv'
    BY <1>1, <1>2, <2>1, <2>4, <2>5 DEF Inv, AckInv, FreshInv
  <2>8. RunsOnceWhereAsked' /\ RunningInv'
    BY <1>1, <2>1, <2>3, <2>4 DEF Inv, RunsOnceWhereAsked, RunningInv
  <2> QED
    BY <1>3, <2>2, <2>6, <2>7, <2>8 DEF Inv
<1>6. CASE TaskReadFunc(k)
  <2>1. /\ ran' = ran /\ ipcFunc' = [ipcFunc EXCEPT ![k] = s_func] /\ s_ipc_ack' = s_ipc_ack /\ ipcPc[k] = "read"
        /\ ipcPc' = [ipcPc EXCEPT ![k] = "ack_start"] /\ s_ipc_sem' = s_ipc_sem
    BY <1>6 DEF TaskReadFunc, IpcReadFunc, clientVars, ipcShared
  <2>2. TypeOK'
    BY <1>1, <2>1 DEF Inv, TypeOK, IpcTypeOK
  <2>3. \A c \in CPU : /\ (ipcPc'[c] = "run") <=> (ipcPc[c] = "run")
                       /\ ipcPc[c] = "run" => ipcFunc'[c] = ipcFunc[c]
    BY <2>1 DEF Inv, TypeOK, IpcTypeOK
  <2>4. \A c \in CPU : Begun(c)' = Begun(c) /\ Ended(c)' = Ended(c)
    BY <2>1, <2>3 DEF Begun, Ended
  <2>5. \A u \in Tasks : HasBegun(u)' <=> HasBegun(u)
    BY <1>2, <2>4 DEF HasBegun
  <2>6. RequestInv'
    <3>1. \A u \in Tasks : s_ipc_mutex = u => s_func = LastArg(u)
      BY <2>1 DEF Inv, RequestInv, Picked, FuncInv
    <3> QED
      BY <1>1, <1>2, <2>1, <3>1 DEF Inv, TypeOK, IpcTypeOK, RequestInv, Picked
  <2>7. AckInv' /\ FreshInv'
    BY <1>1, <1>2, <2>1, <2>4, <2>5 DEF Inv, AckInv, FreshInv
  <2>8. RunsOnceWhereAsked' /\ RunningInv'
    BY <1>1, <2>1, <2>3, <2>4 DEF Inv, RunsOnceWhereAsked, RunningInv
  <2> QED
    BY <1>3, <2>2, <2>6, <2>7, <2>8 DEF Inv
<1>7. CASE TaskAckStart(k)
  <2>1. /\ ran' = ran /\ ipcFunc' = ipcFunc /\ s_ipc_ack' = 1 /\ ipcPc[k] = "ack_start"
        /\ ipcPc' = [ipcPc EXCEPT ![k] = "run"] /\ s_ipc_sem' = s_ipc_sem
    BY <1>7 DEF TaskAckStart, IpcAckStart, clientVars, Inv
  <2>2. TypeOK'
    BY <1>1, <2>1 DEF Inv, TypeOK, IpcTypeOK
  <2>3. PICK h \in Tasks : s_ipc_mutex = h
    BY <2>1 DEF Inv, RequestInv, Picked
  <2>4. /\ callPc[h] = "take_ack" /\ Last(h).cpu = k /\ ipcFunc[k] = LastArg(h) /\ s_ipc_ack = 0
    BY <2>1, <2>3 DEF Inv, RequestInv, Picked
  <2>5. LastArg(h) \in Arg /\ Len(asked[h]) \in 1 .. Len(asked[h])
    <3>1. Len(asked[h]) \in Nat /\ Len(asked[h]) > 0 /\ Len(asked[h]) <= MaxCalls
      BY <2>4 DEF Inv, AskedInv, TypeOK
    <3> QED
      BY <3>1 DEF LastArg, Arg
  <2>6. \A c \in CPU : LastArg(h) \notin Begun(c)
    BY <2>4 DEF Inv, FreshInv
  <2>7. \A c \in CPU \ {k} : /\ ipcPc'[c] = ipcPc[c] /\ Begun(c)' = Begun(c) /\ Ended(c)' = Ended(c)
    BY <2>1 DEF Begun, Ended, Inv, TypeOK, IpcTypeOK
  <2>8. ipcPc'[k] = "run" /\ Begun(k)' = Begun(k) \cup {LastArg(h)} /\ Ended(k)' = Ended(k) /\ Ended(k) \subseteq Begun(k)
    BY <2>1, <2>4 DEF Begun, Ended, Inv, TypeOK, IpcTypeOK
  <2>9. RequestInv'
    BY <1>1, <1>2, <2>1, <2>3, <2>4 DEF Inv, TypeOK, IpcTypeOK, RequestInv, Picked
  <2>10. HasBegun(h)'
    BY <1>2, <2>4, <2>8 DEF HasBegun
  <2>11. \A u \in Tasks \ {h} : (HasBegun(u) => HasBegun(u)')
                                /\ \A c \in CPU : LastArg(u) \notin Begun(c) => LastArg(u)' \notin Begun(c)'
    BY <1>2, <1>4, <2>7, <2>8 DEF HasBegun
  <2>12. AckInv'
    BY <1>1, <2>1, <2>3, <2>4, <2>10 DEF AckInv
  <2>13. FreshInv'
    BY <1>1, <2>1, <2>3, <2>4, <2>10, <2>11 DEF FreshInv, Inv, MutexInv
  <2>14. RunningInv'
    BY <2>1, <2>4, <2>5, <2>7 DEF RunningInv, Inv
  <2>15. LastArg(h)[1] = h /\ LastArg(h)[2] = Len(asked[h]) /\ asked[h][Len(asked[h])].cpu = k
    BY <2>4 DEF Last, LastArg
  <2>16. RunsOnceWhereAsked'
    BY <1>1, <2>1, <2>4, <2>5, <2>6, <2>7, <2>8, <2>15 DEF RunsOnceWhereAsked, Inv
  <2> QED
    BY <1>3, <2>2, <2>9, <2>12, <2>13, <2>14, <2>16 DEF Inv
<1>8. CASE TaskRunFunc(k)
  <2>1. /\ ran' = [ran EXCEPT ![k] = Append(@, ipcFunc[k])] /\ ipcFunc' = ipcFunc /\ s_ipc_ack' = s_ipc_ack
        /\ ipcPc[k] = "run" /\ ipcPc' = [ipcPc EXCEPT ![k] = "ack_end"] /\ s_ipc_sem' = s_ipc_sem
    BY <1>8 DEF TaskRunFunc, ipcShared
  <2>2. ran \in [CPU -> Seq(Arg)] /\ ipcFunc[k] \in Arg /\ ran[k] \in Seq(Arg)
    BY <2>1 DEF Inv, RunningInv, TypeOK
  <2>3. /\ ran' \in [CPU -> Seq(Arg)] /\ \A c \in CPU \ {k} : ran'[c] = ran[c]
        /\ Len(ran[k]) \in Nat /\ Len(ran'[k]) = Len(ran[k]) + 1 /\ ran'[k][Len(ran[k]) + 1] = ipcFunc[k]
        /\ \A i \in 1 .. Len(ran[k]) : ran'[k][i] = ran[k][i]
    BY <2>1, <2>2
  <2>4. TypeOK'
    BY <1>1, <2>1, <2>3 DEF Inv, TypeOK, IpcTypeOK
  <2>5. \A c \in CPU \ {k} : ipcPc'[c] = ipcPc[c] /\ Begun(c)' = Begun(c) /\ Ended(c)' = Ended(c)
    BY <2>1, <2>3 DEF Begun, Ended, Inv, TypeOK, IpcTypeOK
  <2>6. ipcPc'[k] = "ack_end"
    BY <2>1 DEF Inv, TypeOK, IpcTypeOK
  <2>7. \A a : a \in Ended(k)' <=> a \in Ended(k) \/ a = ipcFunc[k]
    <3> SUFFICES ASSUME NEW a PROVE a \in Ended(k)' <=> a \in Ended(k) \/ a = ipcFunc[k]
      OBVIOUS
    <3>1. a \in Ended(k)' <=> \E i \in 1 .. Len(ran'[k]) : a = ran'[k][i]
      BY DEF Ended
    <3>2. a \in Ended(k) <=> \E i \in 1 .. Len(ran[k]) : a = ran[k][i]
      BY DEF Ended
    <3>3. \A i : i \in 1 .. Len(ran'[k]) <=> i \in 1 .. Len(ran[k]) \/ i = Len(ran[k]) + 1
      BY <2>3
    <3> QED
      BY <2>3, <3>1, <3>2, <3>3
  <2>8. Begun(k)' = Ended(k)' /\ Begun(k) = Ended(k) \cup {ipcFunc[k]}
    BY <2>1, <2>6 DEF Begun, Ended
  <2>9. \A c \in CPU : Begun(c)' = Begun(c)
    BY <2>5, <2>7, <2>8
  <2>10. \A u \in Tasks : HasBegun(u)' <=> HasBegun(u)
    BY <1>2, <2>9 DEF HasBegun
  <2>11. RequestInv'
    BY <1>1, <1>2, <2>1, <2>5, <2>6 DEF Inv, RequestInv, Picked
  <2>12. AckInv' /\ FreshInv'
    BY <1>1, <1>2, <2>1, <2>9, <2>10 DEF Inv, AckInv, FreshInv
  <2>13. RunningInv'
    BY <2>1, <2>5, <2>6 DEF Inv, RunningInv
  <2>14. \A i, j \in 1 .. Len(ran'[k]) : ran'[k][i] = ran'[k][j] => i = j
    <3>1. ipcFunc[k] \notin Ended(k) /\ \A i, j \in 1 .. Len(ran[k]) : ran[k][i] = ran[k][j] => i = j
      BY <2>1 DEF Inv, RunsOnceWhereAsked
    <3>2. \A i \in 1 .. Len(ran[k]) : ran[k][i] # ipcFunc[k]
      BY <3>1 DEF Ended
    <3>3. \A i \in 1 .. Len(ran'[k]) : i \in 1 .. Len(ran[k]) \/ i = Len(ran[k]) + 1
      BY <2>3
    <3> QED
      BY <2>3, <3>1, <3>2, <3>3
  <2>15. RunsOnceWhereAsked'
    BY <1>1, <2>1, <2>3, <2>5, <2>6, <2>9, <2>14 DEF Inv, RunsOnceWhereAsked
  <2> QED
    BY <1>3, <2>4, <2>11, <2>12, <2>13, <2>15 DEF Inv
<1>9. CASE TaskAckEnd(k)
  <2>1. /\ ran' = ran /\ ipcFunc' = ipcFunc /\ s_ipc_ack' = s_ipc_ack /\ ipcPc[k] = "ack_end"
        /\ ipcPc' = [ipcPc EXCEPT ![k] = "take_sem"] /\ s_ipc_sem' = s_ipc_sem
    BY <1>9 DEF TaskAckEnd, IpcAckEnd, clientVars, Inv
  <2>2. TypeOK'
    BY <1>1, <2>1 DEF Inv, TypeOK, IpcTypeOK
  <2>3. \A c \in CPU : (ipcPc'[c] = "run") <=> (ipcPc[c] = "run")
    BY <2>1 DEF Inv, TypeOK, IpcTypeOK
  <2>4. \A c \in CPU : Begun(c)' = Begun(c) /\ Ended(c)' = Ended(c)
    BY <2>1, <2>3 DEF Begun, Ended
  <2>5. \A u \in Tasks : HasBegun(u)' <=> HasBegun(u)
    BY <1>2, <2>4 DEF HasBegun
  <2>6. RequestInv'
    BY <1>1, <1>2, <2>1 DEF Inv, TypeOK, IpcTypeOK, RequestInv, Picked
  <2>7. AckInv' /\ FreshInv'
    BY <1>1, <1>2, <2>1, <2>4, <2>5 DEF Inv, AckInv, FreshInv
  <2>8. RunsOnceWhereAsked' /\ RunningInv'
    BY <1>1, <2>1, <2>3, <2>4 DEF Inv, RunsOnceWhereAsked, RunningInv
  <2> QED
    BY <1>3, <2>2, <2>6, <2>7, <2>8 DEF Inv
<1> QED
  BY <1>5, <1>6, <1>7, <1>8, <1>9 DEF IpcTaskNext

(* The start of the scheduler, and a step that changes nothing.            *)
LEMMA QuietInv == ASSUME Inv, UNCHANGED <<ipcVars, asked, ran>>, result' = result,
                         schedState' \in {"not_started", "running"}
                  PROVE  Inv'
<1>1. \A c \in CPU : Begun(c)' = Begun(c) /\ Ended(c)' = Ended(c)
  BY BegunUnchanged DEF ipcVars
<1>2. \A u \in Tasks : Last(u)' = Last(u) /\ LastArg(u)' = LastArg(u)
  BY DEF Last, LastArg
<1>3. \A u \in Tasks : HasBegun(u)' <=> HasBegun(u)
  BY <1>1, <1>2 DEF HasBegun
<1>4. TypeOK' /\ s_ipc_wait' = "start"
  BY DEF Inv, TypeOK, IpcTypeOK, ipcVars, ipcShared
<1>5. MutexInv' /\ AskedInv' /\ FuncInv' /\ RequestInv' /\ RunningInv'
  BY <1>2 DEF Inv, ipcVars, ipcShared, MutexInv, AskedInv, FuncInv, RequestInv, Picked, RunningInv
<1>6. AckInv' /\ FreshInv' /\ RunsOnceWhereAsked'
  BY <1>1, <1>2, <1>3 DEF Inv, ipcVars, ipcShared, AckInv, FreshInv, RunsOnceWhereAsked
<1> QED
  BY <1>4, <1>5, <1>6 DEF Inv

(* Every step preserves the invariant.                                     *)
LEMMA NextInv == Inv /\ [Next]_vars => Inv'
<1> SUFFICES ASSUME Inv, [Next]_vars PROVE Inv'
  OBVIOUS
<1>1. CASE StartScheduler
  BY <1>1, QuietInv DEF StartScheduler
<1>2. ASSUME NEW t \in Tasks, CallerNext(t) PROVE Inv'
  BY <1>2, CallerInv, CallInv DEF CallerNext
<1>3. ASSUME NEW c \in CPU, IpcTaskNext(c) PROVE Inv'
  BY <1>3, IpcTaskInv
<1>4. CASE UNCHANGED vars
  BY <1>4, QuietInv DEF vars, clientVars, Inv, TypeOK
<1> QED
  BY <1>1, <1>2, <1>3, <1>4 DEF Next

(* A caller that is out again, or about to give the mutex back, made a     *)
(* call that has begun on the CPU it named.                                *)
LEMMA InvReturned == Inv => ReturnedMeansBegun
<1> SUFFICES ASSUME Inv, NEW t \in Tasks, callPc[t] \in {"out", "give_mutex"}, Len(asked[t]) > 0
             PROVE  LastArg(t) \in Begun(Last(t).cpu)
  BY DEF ReturnedMeansBegun
<1>1. Last(t).cpu \in CPU
  BY LastCpu DEF Inv
<1>2. HasBegun(t)
  BY DEF Inv, FreshInv
<1> QED
  BY <1>1, <1>2 DEF HasBegun

HIDE DEF Inv, RunsOnceWhereAsked, ReturnedMeansBegun, TypeOK

(* Whatever the number of tasks and of their calls, the function of a call *)
(* runs at most once, with its own argument, on the CPU the call named:    *)
(* ipc_task never reads the globals of another call (ipc.c:57-58).         *)
THEOREM RunsOnce == Spec => []RunsOnceWhereAsked
<1>1. Inv => RunsOnceWhereAsked
  BY DEF Inv
<1> QED
  BY InitInv, NextInv, <1>1, PTL DEF Spec

(* Whatever the number of tasks and of their calls, esp_ipc_call returns   *)
(* ESP_OK only once its own function has begun: no acknowledgement is left *)
(* over for another caller (ipc.c:103).                                    *)
THEOREM ReturnedBegun == Spec => []ReturnedMeansBegun
  BY InitInv, NextInv, InvReturned, PTL DEF Spec
=============================================================================
