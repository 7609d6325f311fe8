-------------------------------- MODULE Styx --------------------------------
(***************************************************************************)
(* A mount and an export joined by a connection: Mnt and Export composed,  *)
(* with processes interrupted and the connection hung up at any moment.    *)
(***************************************************************************)
EXTENDS Mnt, Export

CONSTANTS
  MaxFaults,  \* bound: interrupts of clients, and the hangup
  MayHangup   \* whether the connection may break

ASSUME StyxAssumption == MaxFaults \in Nat /\ MayHangup \in BOOLEAN

VARIABLE faults  \* so far

vars == <<wirevars, killed, mvars, evars, faults>>

Init == WireInit /\ MInit /\ EInit /\ faults = 0

Mount(c) == MountioStep(c) /\ UNCHANGED <<evars, faults>>
NewCall(c) == ~hung /\ Call(c) /\ UNCHANGED <<evars, faults>>
Serve == ExportprocStep /\ UNCHANGED <<mvars, faults>>
Slave(s) == SlaveStep(s) /\ UNCHANGED <<mvars, faults>>
Work(s) == Fcall(s) /\ UNCHANGED <<mvars, faults>>

Kill(c) ==
  /\ faults < MaxFaults /\ faults' = faults + 1
  /\ InterruptClient(c)
  /\ UNCHANGED evars

Break ==
  /\ MayHangup
  /\ faults < MaxFaults /\ faults' = faults + 1
  /\ Hangup
  /\ UNCHANGED <<mvars, evars>>

Next ==
  \/ \E c \in Clients : Mount(c) \/ NewCall(c) \/ Kill(c)
  \/ \E s \in Slaves : Slave(s) \/ Work(s)
  \/ Serve
  \/ Break

Spec == Init /\ [][Next]_vars

\* As long as some process can run, one does; a request in progress need
\* not come to an end unless its process is interrupted.
Running ==
  \/ \E c \in Clients : Mount(c)
  \/ \E s \in Slaves : Slave(s) \/ (killed[s] /\ Work(s))
  \/ Serve

FairSpec == Spec /\ WF_vars(Running)

-----------------------------------------------------------------------------
(* Properties                                                              *)

\* Every variable has its type.
TypeOK ==
  /\ toSrv \in Seq(TMessages) /\ toMnt \in Seq(RMessages)
  /\ hung \in BOOLEAN
  /\ killed \in [Clients \cup Slaves -> BOOLEAN]
  /\ cpc \in [Clients -> CPC]
  /\ ncalls \in [Clients -> 0..MaxCalls]
  /\ chain \in [Clients -> Seq(Tags)]
  /\ target \in [Clients -> Tags]
  /\ reply \in [Tags -> RMessages \cup {NoReply}]
  /\ mqueue \in Seq(Tags)
  /\ rip \in Clients \cup {NoOne}
  /\ rpcfree \in Seq(Tags) /\ Len(rpcfree) <= MaxFree
  /\ tagmask \subseteq Tags
  /\ outcome \in [Calls -> {"none", "called", "ok", "other", "rerror", "eintr", "fail"}]
  /\ epc \in EPC
  /\ ereq \in TMessages \cup {NoMsg}
  /\ exq \in Seq(Calls) /\ tail \in Calls \cup {NoCall} /\ lost \subseteq Calls
  /\ exql \in Slaves \cup {NoOne} /\ fsl \in {NoOne, "exportproc"}
  /\ work \in Seq(Calls)
  /\ DOMAIN rec = Calls
  /\ spc \in [Slaves -> SPC]
  /\ job \in [Slaves -> Calls \cup {NoCall}]
  /\ performed \in [Calls -> Nat] /\ done \subseteq Calls
  /\ tagmask # Tags  \* MaxTag is never the limit

\* Tags of what the server still has to answer, or has answered unread.
AtServer == Range(exq) \cup Range(work) \cup ({job[s] : s \in Slaves} \ {NoCall})
InFlight ==
  {m.tag : m \in Range(toSrv) \cup Range(toMnt)}
    \cup (IF ereq = NoMsg THEN {} ELSE {ereq.tag})
    \cup {rec[k].tag : k \in Range(exq)}
    \cup {rec[job[s]].tag : s \in {s \in Slaves :
            \/ spc[s] \in {"dispatch", "fcall"}
            \/ spc[s] = "complete" /\ ~rec[job[s]].err}}
    \cup UNION {{m.tag : m \in Range(rec[k].flush)} : k \in AtServer}

\* Tags in use by a call.
Held == UNION {Range(chain[c]) : c \in Clients}

\* While the connection stands, a tag is not given to another request as
\* long as anything that carries it may still reach the mount driver: the
\* flush protocol keeps it until the server has said its last word on it.
TagDiscipline == ~hung => InFlight \subseteq Held

\* The two sides together do what RpcService promises.
Service == INSTANCE RpcService WITH
  asked <- [c \in Clients |-> killed[c] \/ cpc[c] = "eintr" \/ Len(chain[c]) > 1],
  broken <- hung

CallsAreOnce == Service!Spec

\* A request that a slave has is, until it is answered, where a flush and the
\* shut down look for it, or the slave holds exq.l to put it there.  Those that
\* wait for a slave are on exq by definition, or are lost.
Findable ==
  \A s \in Slaves :
    spc[s] \in {"dispatch", "fcall", "complete"} =>
      \/ job[s] \in Range(work)
      \/ spc[s] = "dispatch" /\ exql = s
      \/ rec[job[s]].shut

\* A kill meant for one request never interrupts another: while a request
\* is in progress its slave is killed only for a flush of it or a shut down,
\* and no kill outlives the request.
KillHitsItsRequest ==
  \A s \in Slaves : killed[s] =>
    /\ spc[s] \notin {"wait", "dispatch"}
    /\ spc[s] = "fcall" => rec[job[s]].flush # <<>> \/ rec[job[s]].shut

\* While the connection stands, if nobody reads it and some process sleeps,
\* another is on its way to the gate: sleepers are not left behind, whoever
\* is interrupted after it was woken to be the next reader.
GateIsWatched ==
  ~hung /\ rip = NoOne /\ (\E c \in Clients : cpc[c] = "asleep") =>
    \E c \in Clients : cpc[c] \in {"gate", "awake", "eintr"}

\* Between two requests exportproc has let go of Export.l: exflushed can
\* Rflush now and has nothing more to do with the request (exportfs.c:372).
LockIsReturned == epc = "recv" => fsl = NoOne

\* If requests come to their end every call returns; and an interrupted one
\* does even if its request would not have.  Excepted are the two faults of
\* exflushed, a request linked to a freed one and the lock it does not give
\* back, and a connection that has broken.
Faulty == fsl # NoOne \/ lost # {} \/ hung
Ends == \A s \in Slaves : []<>(spc[s] # "fcall")
CallsReturn ==
  /\ Ends => \A c \in Clients : (cpc[c] # "idle") ~> (cpc[c] = "idle" \/ Faulty)
  /\ \A c \in Clients : (cpc[c] = "eintr") ~> (cpc[c] = "idle" \/ Faulty)
=============================================================================
