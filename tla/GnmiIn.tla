------------------------------- MODULE GnmiIn -------------------------------
(***************************************************************************)
(* The gNMI input (xport_gnmi.go): its sticky loop is one stream for all   *)
(* the paths, and every return closes clientDone.                          *)
(***************************************************************************)
EXTENDS RpcBlock

VARIABLE filters  \* the configured paths have "none" or "some" with a [...]

gnmiVars == filters

GnmiInit == filters \in IF kind = "gnmi" THEN {"none", "some"} ELSE {"none"}

(* The loop receives itself: it is this stream. *)
Gnmi == CHOOSE s \in Stream : TRUE

(* SHUTDOWN: cancel(), if there is one, and ACK. *)
GnmiShutdown ==
  /\ block = "select" /\ asked = "yes"
  /\ cancelled' = IF ctx = 0 THEN cancelled ELSE cancelled \union {ctx}
  /\ block' = "acked"
  /\ UNCHANGED <<kind, asked, done, ctx, loop, streamVars, filters, chanVars>>

GnmiRun ==
  /\ kind = "gnmi"
  /\ \/ (Prime \/ Retry \/ SleepOver \/ Ask) /\ UNCHANGED filters
     \/ GnmiShutdown

-----------------------------------------------------------------------------
(* TLS, dial, or subscription fails. *)
GnmiSetupFails ==
  /\ kind = "gnmi" /\ loop = "start"
  /\ CloseDone
  /\ UNCHANGED <<kind, runVars, streamVars, filters, chanVars>>

(* parseGnmiSensorPath, when a path has a filter: with the "]" that Split  *)
(* leaves filterRegex does not match and filter[1] is out of range;        *)
(* without, the assignment is to a nil map.                                *)
GnmiPathPanics ==
  /\ kind = "gnmi" /\ loop = "start" /\ filters = "some"
  /\ loop' = "panic"
  /\ UNCHANGED <<kind, runVars, done, ctx, cancelled, streamVars, filters, chanVars>>

GnmiSubscribed ==
  /\ kind = "gnmi" /\ loop = "start" /\ filters = "none"
  /\ loop' = "serving"
  /\ stream' = [stream EXCEPT ![Gnmi] = "recv"]
  /\ born' = [born EXCEPT ![Gnmi] = ctx]
  /\ UNCHANGED <<kind, runVars, done, ctx, cancelled, watch, at, msgs, filters, chanVars>>

(* An update: its notification is pushed, also when the selectors leave no *)
(* update in it.  A response that is no update changes nothing.            *)
GnmiReceived ==
  /\ kind = "gnmi"
  /\ born[Gnmi] \notin cancelled
  /\ Received(Gnmi, born[Gnmi])
  /\ UNCHANGED filters

(* notification.Prefix.Target of an update without a prefix. *)
GnmiPrefixPanics ==
  /\ kind = "gnmi" /\ stream[Gnmi] = "recv"
  /\ born[Gnmi] \notin cancelled
  /\ loop' = "panic"
  /\ UNCHANGED <<kind, runVars, done, ctx, cancelled, streamVars, filters, chanVars>>

GnmiFailed ==
  /\ kind = "gnmi" /\ stream[Gnmi] = "recv"
  /\ End(Gnmi) /\ CloseDone
  /\ UNCHANGED <<kind, runVars, filters, chanVars>>

GnmiDrained == born[Gnmi] \in cancelled /\ GnmiFailed

GnmiPushed == kind = "gnmi" /\ Pushed(Gnmi, born[Gnmi]) /\ UNCHANGED filters

GnmiCancelled ==
  /\ kind = "gnmi" /\ stream[Gnmi] = "push"
  /\ watch[Gnmi] \in cancelled
  /\ End(Gnmi) /\ CloseDone
  /\ UNCHANGED <<kind, runVars, filters, chanVars>>

GnmiNext ==
  \/ GnmiRun
  \/ GnmiSetupFails \/ GnmiPathPanics \/ GnmiSubscribed
  \/ GnmiReceived \/ GnmiPrefixPanics \/ GnmiFailed \/ GnmiPushed \/ GnmiCancelled

=============================================================================
