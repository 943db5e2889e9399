------------------------------ MODULE DataExchange ------------------------------
(***************************************************************************)
(* One client's data exchange with its device, and the values of its       *)
(* inputs and outputs (client.cpp:128-238, Service.cpp:54-101).            *)
(*                                                                         *)
(* An output has three copies of its value: what a user asked for          *)
(* (expected), what is being sent (inProgress) and what the device has     *)
(* confirmed (val).  Each Output operation runs under the object's mutex   *)
(* and is one action.  setVal() is modelled as class Output offers it,     *)
(* from any thread and at any moment of the conversation: its one caller,  *)
(* mqReceiveLoop() on a Q_SET, does not come that far today                *)
(* (Server.cpp:59, see ReceiveSet of ServiceRegistry).                     *)
(*                                                                         *)
(* An input has a value and a timestamp, stored one after the other, and   *)
(* read one after the other by mqReceiveLoop() for a Q_VAL; a measurement  *)
(* of the device stands for such a pair.                                   *)
(*                                                                         *)
(* The client's mutex allows one conversation at a time.  The module       *)
(* follows the Service objects from one registration to their deletion; a  *)
(* new registration makes new ones.                                        *)
(***************************************************************************)
EXTENDS Integers

CONSTANTS Outputs,    \* ids of the client's outputs, in the order of its map
          Requested,  \* values a user may ask for
          Inputs,     \* ids of the client's inputs
          Measurements, \* what its device may report of them
          min, max,   \* limits from the device's DESC
          Unmeasured, \* what an Input is made with: val = min, timestamp = 0
          Garbage,    \* an uninitialised float, a device never told a value:
                      \* not a requested value
          None

ASSUME OutputAssumption == Outputs \subseteq Nat
ASSUME LimitAssumption == min \in Int /\ max \in Int /\ min <= max
ASSUME RequestAssumption == Requested \subseteq Int /\ Garbage \notin Int
ASSUME InputAssumption == None \notin Inputs \union Measurements \union {Unmeasured}

VARIABLES expected, inProgress, val,  \* Output objects, by id
          change,     \* Output::change: expected has not been confirmed
          pc,         \* the thread that runs Client::tryDataExchange()
          exiting,    \* its parameter end
          todo,       \* outputs the loop of setValues() has not reached
          output,     \* the output the loop stands on
          wire,       \* value of the last SET sent
          eotSent,    \* whether the closing EOT or EXIT left the server
          deviceVal,  \* what the device has applied: external
          value,      \* Input objects, by id: the measurement val and
          timestamp,  \* timestamp are from
          input, measurement, \* the VAL being stored
          asked,      \* the input whose Q_VAL mqReceiveLoop() prepares, or None
          valueRead, timestampRead,  \* its arguments, None if not read yet
          lastSent,   \* by input, the last measurement its device has sent, and
          since       \* those it has sent since the Q_VAL was begun: history

outputVars == <<expected, inProgress, val, change>>
readerVars == <<asked, valueRead, timestampRead, since>>
inputVars == <<value, timestamp, input, measurement, lastSent, readerVars>>
vars == <<expected, inProgress, val, change, pc, exiting, todo, output,
          wire, eotSent, deviceVal, value, timestamp, input, measurement,
          asked, valueRead, timestampRead, lastSent, since>>

Init ==
  /\ expected = [o \in Outputs |-> Garbage]
  /\ inProgress = [o \in Outputs |-> Garbage]
  /\ val = [o \in Outputs |-> min]
  /\ change = [o \in Outputs |-> FALSE]
  /\ pc = "idle" /\ exiting = FALSE /\ todo = {}
  /\ output \in Outputs /\ wire = Garbage
  /\ eotSent = FALSE
  /\ deviceVal = [o \in Outputs |-> Garbage]
  /\ value = [i \in Inputs |-> Unmeasured]
  /\ timestamp = [i \in Inputs |-> Unmeasured]
  /\ input \in Inputs /\ measurement = Unmeasured
  /\ asked = None /\ valueRead = None /\ timestampRead = None
  /\ lastSent = [i \in Inputs |-> Unmeasured] /\ since = {}

ClampOneSided(v) == IF v > max THEN max ELSE v

Clamp(v) == IF v > max THEN max ELSE IF v < min THEN min ELSE v

\* Output::setVal().
SetVal(o, v) ==
  /\ pc # "deleted"
  /\ expected' = [expected EXCEPT ![o] = Clamp(v)]
  /\ change' = [change EXCEPT ![o] = TRUE]
  /\ UNCHANGED <<inProgress, val, pc, exiting, todo, output, wire, eotSent, deviceVal, inputVars>>

\* The device connects; the session key is sent.
Connect ==
  /\ pc = "idle"
  /\ exiting' \in BOOLEAN
  /\ eotSent' = FALSE
  /\ pc' = "getValues"
  /\ UNCHANGED <<outputVars, todo, output, wire, deviceVal, inputVars>>

Sends(i, m) == /\ lastSent' = [lastSent EXCEPT ![i] = m]
               /\ since' = IF i = asked THEN since \union {m} ELSE since

ReceiveValueOnly(i, m) ==   \* without setTimestamp()
  /\ pc = "getValues"
  /\ input' = i /\ measurement' = m
  /\ value' = [value EXCEPT ![i] = m]
  /\ Sends(i, m)
  /\ UNCHANGED <<outputVars, pc, exiting, todo, output, wire, eotSent, deviceVal, timestamp,
                 asked, valueRead, timestampRead>>

\* A VAL of one of the client's inputs: setVal(), then setTimestamp(), each
\* under the object's mutex.
ReceiveValue(i, m) ==
  /\ pc = "getValues"
  /\ input' = i /\ measurement' = m
  /\ value' = [value EXCEPT ![i] = m]
  /\ pc' = "timestamp"
  /\ Sends(i, m)
  /\ UNCHANGED <<outputVars, exiting, todo, output, wire, eotSent, deviceVal, timestamp,
                 asked, valueRead, timestampRead>>

StoreTimestamp ==
  /\ pc = "timestamp"
  /\ timestamp' = [timestamp EXCEPT ![input] = measurement]
  /\ pc' = "getValues"
  /\ UNCHANGED <<outputVars, exiting, todo, output, wire, eotSent, deviceVal,
                 value, input, measurement, lastSent, readerVars>>

\* EOT.  A VAL before it that named a service of another client has been
\* logged and does not fail the exchange.
ValuesReceived ==
  /\ pc = "getValues"
  /\ todo' = IF exiting THEN {} ELSE Outputs
  /\ pc' = IF exiting THEN "setExit" ELSE "setValues"
  /\ UNCHANGED <<outputVars, exiting, output, wire, eotSent, deviceVal, inputVars>>

\* Neither VAL nor EOT, at first or later: the exchange fails, unless
\* tryUnregister() finds an EXIT.
NoValues ==
  /\ pc = "getValues"
  /\ pc' \in {"failed", "unregistered"}
  /\ UNCHANGED <<outputVars, exiting, todo, output, wire, eotSent, deviceVal, inputVars>>

IsFirst(o) == o \in todo /\ \A p \in todo : o <= p

BeginSettingAlways(o) ==   \* the result of beginSetting() is not tested
  /\ pc = "setValues" /\ IsFirst(o)
  /\ inProgress' = [inProgress EXCEPT ![o] = expected[o]]
  /\ output' = o /\ todo' = todo \ {o}
  /\ wire' = expected[o]
  /\ pc' = "answer"
  /\ UNCHANGED <<expected, val, change, exiting, eotSent, deviceVal, inputVars>>

\* beginSetting() and, if there is a change, the SET.  An error of send() is
\* not noticed: the code tests !send(), which -1 passes.
BeginSetting(o) ==
  /\ pc = "setValues" /\ IsFirst(o)
  /\ inProgress' = [inProgress EXCEPT ![o] = expected[o]]
  /\ output' = o /\ todo' = todo \ {o}
  /\ IF change[o] THEN wire' = expected[o] /\ pc' = "answer"
                  ELSE UNCHANGED <<pc, wire>>
  /\ UNCHANGED <<expected, val, change, exiting, eotSent, deviceVal, inputVars>>

\* The device sets the value and says so; its ACK may be lost.
DeviceSets ==
  /\ pc = "answer"
  /\ deviceVal' = [deviceVal EXCEPT ![output] = wire]
  /\ pc' \in {"acked", "failed"}
  /\ UNCHANGED <<outputVars, exiting, todo, output, wire, eotSent, inputVars>>

NakFinalizes ==   \* NAK handled like ACK
  /\ pc = "answer"
  /\ change' = [change EXCEPT ![output] = FALSE]
  /\ val' = [val EXCEPT ![output] = inProgress[output]]
  /\ pc' = "setValues"
  /\ UNCHANGED <<expected, inProgress, exiting, todo, output, wire, eotSent, deviceVal, inputVars>>

\* The device refuses: setValues() goes on with the next output.
DeviceRefuses ==
  /\ pc = "answer"
  /\ pc' = "setValues"
  /\ UNCHANGED <<outputVars, exiting, todo, output, wire, eotSent, deviceVal, inputVars>>

\* No answer, or one that is neither ACK nor NAK.
NoAnswer ==
  /\ pc = "answer"
  /\ pc' = "failed"
  /\ UNCHANGED <<outputVars, exiting, todo, output, wire, eotSent, deviceVal, inputVars>>

FinalizeWithExpected ==   \* val = expected instead of val = inProgress
  /\ pc = "acked"
  /\ change' = [change EXCEPT ![output] = FALSE]
  /\ val' = [val EXCEPT ![output] = expected[output]]
  /\ pc' = "setValues"
  /\ UNCHANGED <<expected, inProgress, exiting, todo, output, wire, eotSent, deviceVal, inputVars>>

FinalizeSetting ==
  /\ pc = "acked"
  /\ IF change[output]
     THEN /\ change' = [change EXCEPT ![output] = FALSE]
          /\ val' = [val EXCEPT ![output] = inProgress[output]]
     ELSE UNCHANGED <<change, val>>
  /\ pc' = "setValues"
  /\ UNCHANGED <<expected, inProgress, exiting, todo, output, wire, eotSent, deviceVal, inputVars>>

\* The closing EOT: whether it was sent or not, the exchange has succeeded.
SendEot ==
  /\ pc = "setValues" /\ todo = {}
  /\ eotSent' \in BOOLEAN
  /\ pc' = "succeed"
  /\ UNCHANGED <<outputVars, exiting, todo, output, wire, deviceVal, inputVars>>

\* setExit(): here the result of send() is compared with 0.
SendExit ==
  /\ pc = "setExit"
  /\ eotSent' \in BOOLEAN
  /\ pc' = IF eotSent' THEN "succeed" ELSE "failed"
  /\ UNCHANGED <<outputVars, exiting, todo, output, wire, deviceVal, inputVars>>

\* The client's services are unregistered: after its EXIT or the server's, or,
\* by clockWalk(), at any moment between two conversations.
Unregister ==
  /\ pc \in {"idle", "failed", "unregistered", "succeed"}
  /\ pc' = "deleted"
  /\ UNCHANGED <<outputVars, exiting, todo, output, wire, eotSent, deviceVal, inputVars>>

Close ==
  /\ pc \in {"failed", "unregistered", "succeed"}
  /\ pc' = "idle" /\ todo' = {} /\ exiting' = FALSE
  /\ UNCHANGED <<outputVars, output, wire, eotSent, deviceVal, inputVars>>

--------------------------------------------------------------------------------
(***************************************************************************)
(* mqReceiveLoop(), on a Q_GET of an input (Server.cpp:44-47).  getVal()   *)
(* and getTimestamp() each take the object's mutex; they are arguments of  *)
(* one call, so C++ leaves their order open.  An output has its value      *)
(* only: the timestamp sent with it is the present time.                   *)
(***************************************************************************)
Get(i) ==
  /\ asked = None /\ pc # "deleted"
  /\ asked' = i /\ valueRead' = None /\ timestampRead' = None
  /\ since' = {lastSent[i]} \union IF pc = "timestamp" /\ input = i THEN {timestamp[i]} ELSE {}
  /\ UNCHANGED <<outputVars, pc, exiting, todo, output, wire, eotSent, deviceVal,
                 value, timestamp, input, measurement, lastSent>>

GetVal ==
  /\ asked # None /\ valueRead = None /\ pc # "deleted"
  /\ valueRead' = value[asked]
  /\ UNCHANGED <<outputVars, pc, exiting, todo, output, wire, eotSent, deviceVal,
                 value, timestamp, input, measurement, lastSent, asked, timestampRead, since>>

GetTimestamp ==
  /\ asked # None /\ timestampRead = None /\ pc # "deleted"
  /\ timestampRead' = timestamp[asked]
  /\ UNCHANGED <<outputVars, pc, exiting, todo, output, wire, eotSent, deviceVal,
                 value, timestamp, input, measurement, lastSent, asked, valueRead, since>>

SendVal ==
  /\ asked # None /\ valueRead # None /\ timestampRead # None
  /\ asked' = None /\ valueRead' = None /\ timestampRead' = None /\ since' = {}
  /\ UNCHANGED <<outputVars, pc, exiting, todo, output, wire, eotSent, deviceVal,
                 value, timestamp, input, measurement, lastSent>>

AnswerGet == (\E i \in Inputs : Get(i)) \/ GetVal \/ GetTimestamp \/ SendVal

Converse == \/ (\E i \in Inputs, m \in Measurements : ReceiveValue(i, m))
            \/ StoreTimestamp \/ ValuesReceived \/ NoValues
            \/ (\E o \in Outputs : BeginSetting(o)) \/ DeviceSets \/ DeviceRefuses \/ NoAnswer
            \/ FinalizeSetting \/ SendEot \/ SendExit \/ Close

Next == \/ Connect \/ Converse \/ Unregister \/ AnswerGet
        \/ \E o \in Outputs, v \in Requested : SetVal(o, v)
        \/ pc = "deleted" /\ UNCHANGED vars

Spec == Init /\ [][Next]_vars
--------------------------------------------------------------------------------
Values == min .. max
Stored == Measurements \union {Unmeasured}

TypeOK ==
  /\ expected \in [Outputs -> Values \union {Garbage}]
  /\ inProgress \in [Outputs -> Values \union {Garbage}]
  /\ val \in [Outputs -> Values \union {Garbage}]
  /\ change \in [Outputs -> BOOLEAN]
  /\ pc \in {"idle", "getValues", "timestamp", "setValues", "answer", "acked", "setExit",
             "failed", "unregistered", "succeed", "deleted"}
  /\ exiting \in BOOLEAN /\ eotSent \in BOOLEAN
  /\ todo \subseteq Outputs /\ output \in Outputs
  /\ wire \in Values \union {Garbage}
  /\ deviceVal \in [Outputs -> Values \union {Garbage}]
  /\ value \in [Inputs -> Stored] /\ timestamp \in [Inputs -> Stored]
  /\ lastSent \in [Inputs -> Stored]
  /\ input \in Inputs /\ measurement \in Stored
  /\ asked \in Inputs \union {None} /\ since \subseteq Stored
  /\ valueRead \in Stored \union {None} /\ timestampRead \in Stored \union {None}

(***************************************************************************)
(* A device is never told to set a value nobody asked for: expected is     *)
(* uninitialised until the first setVal(), and read by beginSetting() in   *)
(* every exchange before that (Service.cpp:72-82).  Nor one outside its    *)
(* limits.                                                                 *)
(***************************************************************************)
OnlyRequestedValuesSent ==
  pc \in {"answer", "acked"} => \E v \in Requested : wire = Clamp(v) /\ wire \in Values

(***************************************************************************)
(* "this value is being set, if succeed current will be equal to           *)
(* inProgress" (Service.h:57): whatever setVal() does in between, the      *)
(* value the server reports is one its device has really set, and it is    *)
(* the device's present value unless an answer to a later SET was lost,    *)
(* in which case the change is still pending.  The exception is a device   *)
(* that has not been told a value yet: min is reported for it              *)
(* (Service.cpp:9).                                                        *)
(***************************************************************************)
ReportedValueWasSet ==
  \A o \in Outputs :
    \/ val[o] = deviceVal[o]
    \/ change[o]
    \/ (deviceVal[o] = Garbage /\ val[o] = min)

(***************************************************************************)
(* Why ReportedValueWasSet holds: from BeginSetting to FinalizeSetting the *)
(* change is pending and inProgress is what was sent, whoever calls        *)
(* setVal() meanwhile; and a pending change has a requested value.         *)
(***************************************************************************)
SettingInProgress ==
  /\ pc \in {"answer", "acked"} => change[output] /\ wire = inProgress[output]
  /\ pc = "acked" => deviceVal[output] = wire

PendingWasRequested ==
  \A o \in Outputs : change[o] => \E v \in Requested : expected[o] = Clamp(v)

(***************************************************************************)
(* A Q_VAL is about what its device measured last: value and timestamp     *)
(* belong to the last measurement the device had sent when the Q_VAL was   *)
(* begun, or to one that was being stored or came in meanwhile             *)
(* (client.cpp:184-185 against Server.cpp:46).  So it is torn only by a    *)
(* VAL that overlaps it, and neither half is ever older than that.         *)
(***************************************************************************)
AnswersAreCurrent ==
  asked # None => valueRead \in since \union {None} /\ timestampRead \in since \union {None}

(***************************************************************************)
(* Why AnswersAreCurrent holds: however the conversation goes on or breaks *)
(* off, both fields of an input have the last measurement, except between  *)
(* the two stores of one VAL, and what a reader may see is in since.       *)
(***************************************************************************)
FieldsAreCurrent ==
  /\ value = lastSent
  /\ \A i \in Inputs : (pc = "timestamp" /\ i = input) \/ timestamp[i] = lastSent[i]
  /\ pc = "timestamp" => lastSent[input] = measurement
  /\ asked # None => {value[asked], timestamp[asked]} \subseteq since

ExchangeInv == /\ TypeOK
               /\ SettingInProgress
               /\ PendingWasRequested
               /\ ReportedValueWasSet
               /\ OnlyRequestedValuesSent
               /\ FieldsAreCurrent
               /\ AnswersAreCurrent

(***************************************************************************)
(* A requested change is given up only when the device has confirmed one:  *)
(* refusals, lost answers and broken connections leave it for the next     *)
(* connection (client.cpp:211-226).                                        *)
(***************************************************************************)
RetriedUntilConfirmed ==
  [][\A o \in Outputs : change[o] /\ ~change'[o] => deviceVal[o] = val'[o]]_vars
================================================================================
