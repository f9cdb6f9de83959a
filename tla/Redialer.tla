----------------------------- MODULE Redialer -----------------------------
(***************************************************************************)
(* The client of a plugin, rpcx.Redialer (pkg/rpcx/redial.go), with the    *)
(* loop it repeats its attempts in, repeaterx.AllowedErrors.Do over        *)
(* strategy.FixedDelay.                                                    *)
(*                                                                         *)
(* All the jobs that call one tracker share one Redialer and, through its  *)
(* unguarded field cl, one connection.  At its other end is a process made *)
(* of the plugin library (lib/plugin.go), which may stop or die and come   *)
(* back at any time.  The network and net/rpc are external: a client that  *)
(* has noticed the end of its connection answers ErrShutdown to new calls  *)
(* without sending them, and io.ErrUnexpectedEOF to those it has sent.     *)
(***************************************************************************)
EXTENDS Naturals, Sequences

CONSTANTS Calls,    \* calls that may be made, each by a goroutine of its own
          Repeats,  \* FixedDelay.Repeats
          MaxConns  \* bound on the connections that are ever made

ASSUME RedialerAssumption == Repeats \in Nat \ {0} /\ MaxConns \in Nat

VARIABLES
  plugin,    \* Plugin.Listen: "off", "listening" or "stopping"
  new,       \* NewRedialer: "dialing", "ready" or "failed"
  cl,        \* Redialer.cl: the number of a connection, 0 for a nil client
  conns,     \* connection -> "open" or "shutdown", as its client has it
  ends,      \* connection -> "queued", "served" or "gone", as the plugin has it
  pc,        \* call -> what it does next, or what it has returned
  on,        \* call -> the connection it was sent on
  attempts,  \* call -> attempts made
  expired,   \* calls whose context is done
  sent,      \* requests on their way to the plugin: a call and an attempt
  executed   \* requests the plugin has executed

vars == <<plugin, new, cl, conns, ends, pc, on, attempts, expired, sent, executed>>

Returned == {"answered", "skipped", "error", "shutdown", "canceled"}
Request == Calls \X (1..Repeats)

Init ==
  /\ plugin \in {"off", "listening"}
  /\ new = "dialing" /\ cl = 0 /\ conns = <<>> /\ ends = <<>>
  /\ pc = [c \in Calls |-> "idle"]
  /\ on = [c \in Calls |-> 0]
  /\ attempts = [c \in Calls |-> 0]
  /\ expired = {} /\ sent = {} /\ executed = {}

(* A panic in a goroutine of a job ends the process.                       *)
Panicked == \E c \in Calls : pc[c] = "panic"

Goto(c, to) == pc' = [pc EXCEPT ![c] = to]

(* A Dial succeeds as soon as the plugin listens: its connection waits in  *)
(* the queue of the listener.                                              *)
Dialed == Len(conns) + 1

Dial ==
  /\ plugin = "listening" /\ Dialed <= MaxConns
  /\ conns' = Append(conns, "open")
  /\ ends' = Append(ends, "queued")

(* Nobody listens, or the network fails.                                   *)
DialFails == UNCHANGED <<conns, ends>>
-----------------------------------------------------------------------------
(* NewRedialer passes no error to Do, so that the first failure is final.  *)
DialFirst ==
  /\ new = "dialing"
  /\ \/ Dial /\ cl' = Dialed /\ new' = "ready"
     \/ DialFails /\ cl' = cl /\ new' = "failed"
  /\ UNCHANGED <<plugin, pc, on, attempts, expired, sent, executed>>

Begin(c) ==
  /\ new = "ready" /\ pc[c] = "idle"
  /\ Goto(c, "select")
  /\ UNCHANGED <<plugin, new, cl, conns, ends, on, attempts, expired, sent, executed>>

(* The select of Do: the context is done; a tick; or the channel is closed *)
(* and Do returns the error of the last attempt, nil if there was none.    *)
(* The strategy closes it after the last tick and when the context is done. *)
Select(c) ==
  /\ pc[c] = "select"
  /\ \/ c \in expired /\ Goto(c, "canceled") /\ UNCHANGED attempts
     \/ /\ attempts[c] < Repeats
        /\ attempts' = [attempts EXCEPT ![c] = @ + 1]
        /\ Goto(c, "call")
     \/ /\ attempts[c] = Repeats \/ c \in expired
        /\ Goto(c, IF attempts[c] = 0 THEN "skipped" ELSE "shutdown")
        /\ UNCHANGED attempts
  /\ UNCHANGED <<plugin, new, cl, conns, ends, on, expired, sent, executed>>

(* The attempt: r.cl.Call sends the request, or answers ErrShutdown.       *)
Call(c) ==
  /\ pc[c] = "call"
  /\ IF cl = 0 THEN Goto(c, "panic") /\ UNCHANGED <<on, sent>>
     ELSE IF conns[cl] = "shutdown" THEN Goto(c, "redial") /\ UNCHANGED <<on, sent>>
     ELSE /\ Goto(c, "pending")
          /\ on' = [on EXCEPT ![c] = cl]
          /\ sent' = sent \cup {<<c, attempts[c]>>}
  /\ UNCHANGED <<plugin, new, cl, conns, ends, attempts, expired, executed>>

(* After ErrShutdown the plugin is dialed (mutants: until it is back; the  *)
(* error of the dial is not looked at).                                    *)
RedialUnchecked(c) ==
  /\ pc[c] = "redial"
  /\ \/ Dial /\ Goto(c, "assign") /\ on' = [on EXCEPT ![c] = Dialed]
     \/ DialFails /\ Goto(c, "assign") /\ on' = [on EXCEPT ![c] = Dialed]
  /\ UNCHANGED <<plugin, new, cl, attempts, expired, sent, executed>>
RedialForever(c) ==
  /\ pc[c] = "redial"
  /\ Dial /\ Goto(c, "assign") /\ on' = [on EXCEPT ![c] = Dialed]
  /\ UNCHANGED <<plugin, new, cl, attempts, expired, sent, executed>>
Redial(c) ==
  /\ pc[c] = "redial"
  /\ \/ Dial /\ Goto(c, "assign") /\ on' = [on EXCEPT ![c] = Dialed]
     \/ DialFails /\ Goto(c, "assign") /\ on' = [on EXCEPT ![c] = 0]
  /\ UNCHANGED <<plugin, new, cl, attempts, expired, sent, executed>>

(* A new connection replaces the old one, or the one that another call has *)
(* made meanwhile, and ends the attempt without an error; a failure leaves *)
(* a nil client behind and is logged by a logger that nobody has set.      *)
Assign(c) ==
  /\ pc[c] = "assign"
  /\ cl' = on[c]
  /\ Goto(c, IF on[c] = 0 THEN "panic" ELSE "skipped")
  /\ UNCHANGED <<plugin, new, conns, ends, on, attempts, expired, sent, executed>>

(* The error of an attempt: Do repeats after a listed one, which is        *)
(* ErrShutdown alone (mutants: after any; whatever the error was, the      *)
(* caller is told that of the first attempt, ErrShutdown).                 *)
AfterErrorAny == "select"
AfterErrorHidden == "shutdown"
AfterError == "error"
-----------------------------------------------------------------------------
(* The plugin executes a request that has reached it, if the client still  *)
(* waits or not: ServeConn runs every request in a goroutine of its own.   *)
Execute(r) ==
  /\ r \in sent
  /\ \E k \in DOMAIN ends : k = on[r[1]] /\ ends[k] = "served"
  /\ sent' = sent \ {r}
  /\ executed' = executed \cup {r}
  /\ UNCHANGED <<plugin, new, cl, conns, ends, pc, on, attempts, expired>>

(* The answer arrives: a response, or an error of the plugin.              *)
Answer(c) ==
  /\ pc[c] = "pending"
  /\ <<c, attempts[c]>> \in executed
  /\ Goto(c, "answered") \/ Goto(c, AfterError)
  /\ UNCHANGED <<plugin, new, cl, conns, ends, on, attempts, expired, sent, executed>>

(* The client of net/rpc notices that its connection is gone.              *)
Break(k) ==
  /\ k \in DOMAIN conns /\ conns[k] = "open"
  /\ conns' = [conns EXCEPT ![k] = "shutdown"]
  /\ pc' = [c \in Calls |->
              IF pc[c] = "pending" /\ on[c] = k THEN AfterError ELSE pc[c]]
  /\ UNCHANGED <<plugin, new, cl, ends, on, attempts, expired, sent, executed>>

pluginOnly == <<new, cl, conns, pc, on, attempts, expired, sent, executed>>

PluginListens ==
  /\ plugin = "off"
  /\ plugin' = "listening"
  /\ UNCHANGED <<ends, pluginOnly>>

(* The loop of Plugin.listen: a goroutine serves the next connection.      *)
Accept(k) ==
  /\ plugin = "listening"
  /\ k \in DOMAIN ends /\ ends[k] = "queued"
  /\ ends' = [ends EXCEPT ![k] = "served"]
  /\ UNCHANGED <<plugin, pluginOnly>>

Lose(S) == ends' = [k \in DOMAIN ends |-> IF ends[k] \in S THEN "gone" ELSE ends[k]]

(* Its context is done: the listener is closed with what waits in its      *)
(* queue, what was accepted is served until the process ends.              *)
PluginStops ==
  /\ plugin = "listening"
  /\ plugin' = "stopping" /\ Lose({"queued"})
  /\ UNCHANGED pluginOnly

PluginEnds ==
  /\ plugin # "off"
  /\ plugin' = "off" /\ Lose({"queued", "served"})
  /\ UNCHANGED pluginOnly

Expire(c) ==
  /\ pc[c] \notin Returned \cup {"idle"}
  /\ expired' = expired \cup {c}
  /\ UNCHANGED <<plugin, new, cl, conns, ends, pc, on, attempts, sent, executed>>

Proceed(c) == Begin(c) \/ Select(c) \/ Call(c) \/ Redial(c) \/ Assign(c)

Next ==
  /\ ~Panicked
  /\ \/ DialFirst \/ PluginListens \/ PluginStops \/ PluginEnds
     \/ \E c \in Calls : Proceed(c) \/ Answer(c) \/ Expire(c)
     \/ \E r \in sent : Execute(r)
     \/ \E k \in 1..MaxConns : Break(k) \/ Accept(k)

Spec == Init /\ [][Next]_vars

(* The scheduler runs every goroutine, the plugin accepts, executes and    *)
(* answers what it is sent, and a client notices that the process at the   *)
(* other end of its connection is gone.                                    *)
Fairness ==
  /\ \A c \in Calls : WF_vars(~Panicked /\ Proceed(c))
  /\ \A c \in Calls, n \in 1..Repeats : WF_vars(~Panicked /\ Execute(<<c, n>>))
  /\ \A c \in Calls : WF_vars(~Panicked /\ Answer(c))
  /\ \A k \in 1..MaxConns :
       WF_vars(~Panicked /\ (Accept(k) \/ (k \in DOMAIN ends /\ ends[k] = "gone" /\ Break(k))))

FairSpec == Spec /\ Fairness
-----------------------------------------------------------------------------
TypeOK ==
  /\ plugin \in {"off", "listening", "stopping"}
  /\ new \in {"dialing", "ready", "failed"}
  /\ conns \in Seq({"open", "shutdown"}) /\ Len(conns) <= MaxConns
  /\ ends \in Seq({"queued", "served", "gone"}) /\ Len(ends) = Len(conns)
  /\ cl \in DOMAIN conns \cup {0}
  /\ pc \in [Calls -> {"idle", "select", "call", "pending", "redial", "assign", "panic"} \cup Returned]
  /\ on \in [Calls -> DOMAIN conns \cup {0}]
  /\ attempts \in [Calls -> 0..Repeats]
  /\ expired \subseteq Calls
  /\ sent \subseteq Request /\ executed \subseteq Request

(* A plugin executes a call at most once: a call is sent again only after  *)
(* an error that tells it was not sent, however connections end and other  *)
(* callers replace them (redial.go:51-62, repeaterx.go:29-58).  A plugin   *)
(* that creates a task on every call would otherwise create two.           *)
AtMostOnce ==
  \A r, s \in executed \cup sent : r[1] = s[1] => r = s

(* Why: a request is of the only attempt that was sent, and the call that  *)
(* sent it waits for it or has returned; an answered one is executed.      *)
SentOnce ==
  /\ sent \cap executed = {}
  /\ \A r \in sent \cup executed :
       r[2] = attempts[r[1]] /\ pc[r[1]] \in {"pending", "answered", "error"}
  /\ \A c \in Calls : pc[c] = "answered" => <<c, attempts[c]>> \in executed
  /\ \A c \in Calls : pc[c] = "call" => attempts[c] # 0

(* A call is executed once at most; one that returns ErrShutdown, the      *)
(* error of its context or nothing is not executed by then and never will  *)
(* be, and only an error of the connection or of the plugin leaves it open *)
(* (redial.go:50-64): RemoteCall is what Redialer.Call promises.           *)
PhaseOf(at) ==
  CASE at \in {"idle", "answered", "skipped"} -> at
    [] at \in {"shutdown", "canceled"} -> "refused"
    [] at = "error" -> "failed"
    [] OTHER -> "pending"

Phase == [c \in Calls |-> PhaseOf(pc[c])]

Abstract == INSTANCE RemoteCall WITH phase <- Phase

ImplementsRemoteCall == Abstract!Spec

(* Every call returns, or the process ends with all of them, if the plugin *)
(* answers what it is sent; it need not be back for that once it is gone.  *)
CallReturns ==
  \A c \in Calls : pc[c] = "select" ~> pc[c] \in Returned \/ Panicked

(* As the comment of Redialer.Call has it (redial.go:48-49), it makes a    *)
(* call to the remote server: a call in time that returns nil was executed. *)
OkMeansExecuted ==
  \A c \in Calls \ expired :
    pc[c] \in {"answered", "skipped"} => \E n \in 1..Repeats : <<c, n>> \in executed

(* As the comment of Redialer has it (redial.go:13-14), it redials with    *)
(* the repeating strategy: a plugin that is away for a moment costs an     *)
(* error at most.                                                          *)
NoPanic == ~Panicked
=============================================================================
