-------------------------- MODULE DataExchange_proofs --------------------------
(***************************************************************************)
(* TLAPS proofs about DataExchange, for any outputs, limits and requests.  *)
(***************************************************************************)
EXTENDS DataExchange, TLAPS

USE DEF inputVars, readerVars, Stored

\* Output::setVal() keeps the expected value within the limits.
LEMMA ClampWithinLimits ==
  ASSUME NEW v \in Requested
  PROVE  Clamp(v) \in Values
BY LimitAssumption, RequestAssumption DEF Clamp, Values

\* Nothing has been requested or sent before the first conversation.
LEMMA ExchangeInit == Init => ExchangeInv
<1> SUFFICES ASSUME Init PROVE ExchangeInv
  OBVIOUS
<1>1. min \in Values
  BY LimitAssumption DEF Values
<1>2. TypeOK
  BY <1>1 DEF Init, TypeOK
<1>3. SettingInProgress /\ PendingWasRequested /\ OnlyRequestedValuesSent
  BY DEF Init, SettingInProgress, PendingWasRequested, OnlyRequestedValuesSent
<1>4. ReportedValueWasSet /\ FieldsAreCurrent /\ AnswersAreCurrent
  BY DEF Init, ReportedValueWasSet, FieldsAreCurrent, AnswersAreCurrent
<1> QED
  BY <1>2, <1>3, <1>4 DEF ExchangeInv

\* A request may arrive at any point of the conversation, even during a SET.
LEMMA SetValInv ==
  ASSUME ExchangeInv, NEW o \in Outputs, NEW v \in Requested, SetVal(o, v)
  PROVE  ExchangeInv'
<1> USE DEF ExchangeInv
<1>1. TypeOK'
  BY ClampWithinLimits DEF TypeOK, SetVal
<1>2. SettingInProgress'
  BY DEF TypeOK, SettingInProgress, SetVal
<1>3. PendingWasRequested'
  BY DEF TypeOK, PendingWasRequested, SetVal, Clamp
<1>4. ReportedValueWasSet'
  BY DEF TypeOK, ReportedValueWasSet, SetVal
<1>5. OnlyRequestedValuesSent' /\ FieldsAreCurrent' /\ AnswersAreCurrent'
  BY DEF OnlyRequestedValuesSent, FieldsAreCurrent, AnswersAreCurrent, SetVal, Clamp
<1> QED
  BY <1>1, <1>2, <1>3, <1>4, <1>5

\* What goes out is the clamped request that is pending.
LEMMA BeginSettingInv ==
  ASSUME ExchangeInv, NEW o \in Outputs, BeginSetting(o)
  PROVE  ExchangeInv'
<1> USE DEF ExchangeInv
<1>1. TypeOK' /\ FieldsAreCurrent' /\ AnswersAreCurrent'
  BY DEF TypeOK, FieldsAreCurrent, AnswersAreCurrent, BeginSetting
<1>2. SettingInProgress'
  BY DEF TypeOK, SettingInProgress, BeginSetting
<1>3. PendingWasRequested' /\ ReportedValueWasSet'
  BY DEF PendingWasRequested, ReportedValueWasSet, BeginSetting, Clamp
<1>4. OnlyRequestedValuesSent'
  <2>1. CASE change[o]
    <3>1. PICK v \in Requested : expected[o] = Clamp(v)
      BY <2>1 DEF PendingWasRequested
    <3> QED
      BY <2>1, <3>1, ClampWithinLimits DEF OnlyRequestedValuesSent, BeginSetting, Clamp, Values
  <2>2. CASE ~change[o]
    BY <2>2 DEF OnlyRequestedValuesSent, BeginSetting
  <2> QED
    BY <2>1, <2>2
<1> QED
  BY <1>1, <1>2, <1>3, <1>4

\* The device's value changes, so the reported one may differ: the change is
\* still pending.
LEMMA DeviceSetsInv ==
  ASSUME ExchangeInv, DeviceSets
  PROVE  ExchangeInv'
<1> USE DEF ExchangeInv
<1>1. TypeOK' /\ FieldsAreCurrent' /\ AnswersAreCurrent'
  BY DEF TypeOK, FieldsAreCurrent, AnswersAreCurrent, DeviceSets, outputVars
<1>2. SettingInProgress'
  BY DEF TypeOK, SettingInProgress, DeviceSets, outputVars
<1>3. ReportedValueWasSet'
  BY DEF TypeOK, ReportedValueWasSet, SettingInProgress, DeviceSets, outputVars
<1>4. PendingWasRequested' /\ OnlyRequestedValuesSent'
  BY DEF PendingWasRequested, OnlyRequestedValuesSent, DeviceSets, outputVars, Clamp
<1> QED
  BY <1>1, <1>2, <1>3, <1>4

\* val becomes what was sent, which the device has set.
LEMMA FinalizeInv ==
  ASSUME ExchangeInv, FinalizeSetting
  PROVE  ExchangeInv'
<1> USE DEF ExchangeInv
<1>1. TypeOK' /\ FieldsAreCurrent' /\ AnswersAreCurrent'
  BY DEF TypeOK, FieldsAreCurrent, AnswersAreCurrent, FinalizeSetting
<1>2. SettingInProgress' /\ OnlyRequestedValuesSent'
  BY DEF SettingInProgress, OnlyRequestedValuesSent, FinalizeSetting
<1>3. PendingWasRequested'
  BY DEF TypeOK, PendingWasRequested, FinalizeSetting, Clamp
<1>4. ReportedValueWasSet'
  BY DEF TypeOK, ReportedValueWasSet, SettingInProgress, FinalizeSetting
<1> QED
  BY <1>1, <1>2, <1>3, <1>4

\* Between the two stores of a VAL the input is torn, but no other is; what
\* comes in during a reading is in since.
LEMMA MeasurementInv ==
  ASSUME ExchangeInv,
         (\E i \in Inputs, m \in Measurements : ReceiveValue(i, m)) \/ StoreTimestamp
  PROVE  ExchangeInv'
<1> USE DEF ExchangeInv
<1>1. UNCHANGED <<outputVars, output, wire, deviceVal>> /\ pc' \notin {"answer", "acked"}
  BY DEF ReceiveValue, StoreTimestamp
<1>2. TypeOK'
  BY DEF TypeOK, outputVars, ReceiveValue, Sends, StoreTimestamp
<1>3. FieldsAreCurrent' /\ AnswersAreCurrent'
  <2>1. ASSUME NEW i \in Inputs, NEW m \in Measurements, ReceiveValue(i, m)
        PROVE  FieldsAreCurrent' /\ AnswersAreCurrent'
    <3>1. \A x \in Inputs : value[x] = lastSent[x] /\ timestamp[x] = lastSent[x]
      BY <2>1 DEF FieldsAreCurrent, ReceiveValue
    <3>2. value' = [value EXCEPT ![i] = m] /\ lastSent' = [lastSent EXCEPT ![i] = m]
      BY <2>1 DEF ReceiveValue, Sends
    <3>3. value' = lastSent'
      BY <3>2 DEF FieldsAreCurrent
    <3>4. /\ \A x \in Inputs : (pc' = "timestamp" /\ x = input') \/ timestamp'[x] = lastSent'[x]
          /\ lastSent'[input'] = measurement'
      BY <2>1, <3>1, <3>2 DEF ReceiveValue, TypeOK
    <3>5. asked' # None => {value'[asked'], timestamp'[asked']} \subseteq since'
      BY <2>1, <3>2 DEF ReceiveValue, Sends, FieldsAreCurrent, TypeOK
    <3>6. AnswersAreCurrent'
      BY <2>1 DEF ReceiveValue, Sends, AnswersAreCurrent
    <3> QED
      BY <3>3, <3>4, <3>5, <3>6 DEF FieldsAreCurrent
  <2>2. CASE StoreTimestamp
    BY <2>2 DEF TypeOK, FieldsAreCurrent, AnswersAreCurrent, StoreTimestamp
  <2> QED
    BY <2>1, <2>2
<1>4. SettingInProgress' /\ OnlyRequestedValuesSent'
  BY <1>1 DEF SettingInProgress, OnlyRequestedValuesSent
<1>5. PendingWasRequested' /\ ReportedValueWasSet'
  BY <1>1 DEF PendingWasRequested, ReportedValueWasSet, outputVars, Clamp
<1> QED
  BY <1>2, <1>3, <1>4, <1>5

\* mqReceiveLoop() reads what the input holds, which is in since.
LEMMA ReaderInv ==
  ASSUME ExchangeInv, AnswerGet
  PROVE  ExchangeInv'
<1> USE DEF ExchangeInv
<1>1. UNCHANGED <<outputVars, pc, output, wire, deviceVal, value, timestamp, input,
                  measurement, lastSent, todo, exiting, eotSent>>
  BY DEF AnswerGet, Get, GetVal, GetTimestamp, SendVal
<1>2. SettingInProgress' /\ OnlyRequestedValuesSent' /\ PendingWasRequested' /\ ReportedValueWasSet'
  BY <1>1 DEF SettingInProgress, OnlyRequestedValuesSent, PendingWasRequested,
              ReportedValueWasSet, outputVars, Clamp
<1>3. TypeOK' /\ FieldsAreCurrent' /\ AnswersAreCurrent'
  <2>1. ASSUME NEW i \in Inputs, Get(i)
        PROVE  TypeOK' /\ FieldsAreCurrent' /\ AnswersAreCurrent'
    BY <1>1, <2>1 DEF TypeOK, FieldsAreCurrent, AnswersAreCurrent, Get, outputVars
  <2>2. CASE GetVal \/ GetTimestamp
    BY <1>1, <2>2 DEF TypeOK, FieldsAreCurrent, AnswersAreCurrent, GetVal, GetTimestamp, outputVars
  <2>3. CASE SendVal
    BY <1>1, <2>3 DEF TypeOK, FieldsAreCurrent, AnswersAreCurrent, SendVal, outputVars
  <2> QED
    BY <2>1, <2>2, <2>3 DEF AnswerGet
<1> QED
  BY <1>2, <1>3

\* The other steps move the conversation on and leave the values alone.
LEMMA MoveOnInv ==
  ASSUME ExchangeInv,
         Connect \/ ValuesReceived \/ NoValues \/ DeviceRefuses \/ NoAnswer
           \/ SendEot \/ SendExit \/ Close \/ Unregister
  PROVE  ExchangeInv'
<1> USE DEF ExchangeInv
<1>1. /\ UNCHANGED <<outputVars, output, wire, deviceVal, inputVars>>
      /\ pc \notin {"timestamp"} /\ pc' \notin {"answer", "acked", "timestamp"}
  BY DEF TypeOK, Connect, ValuesReceived, NoValues, DeviceRefuses, NoAnswer,
         SendEot, SendExit, Close, Unregister
<1>2. TypeOK'
  BY DEF TypeOK, outputVars, Connect, ValuesReceived, NoValues, DeviceRefuses, NoAnswer,
         SendEot, SendExit, Close, Unregister
<1>3. SettingInProgress' /\ OnlyRequestedValuesSent'
  BY <1>1 DEF SettingInProgress, OnlyRequestedValuesSent
<1>4. PendingWasRequested' /\ ReportedValueWasSet'
  BY <1>1 DEF PendingWasRequested, ReportedValueWasSet, outputVars, Clamp
<1>5. FieldsAreCurrent' /\ AnswersAreCurrent'
  <2>1. /\ UNCHANGED <<value, timestamp, input, measurement, lastSent, asked, valueRead,
                       timestampRead, since>>
        /\ pc # "timestamp" /\ pc' # "timestamp"
    BY <1>1
  <2>2. AnswersAreCurrent'
    BY <2>1 DEF AnswersAreCurrent
  <2>3. FieldsAreCurrent'
    BY <2>1 DEF FieldsAreCurrent
  <2> QED
    BY <2>2, <2>3
<1> QED
  BY <1>2, <1>3, <1>4, <1>5

\* Every step of the conversation and every request keep the invariant.
LEMMA ExchangeNext == ExchangeInv /\ [Next]_vars => ExchangeInv'
<1> SUFFICES ASSUME ExchangeInv, [Next]_vars
             PROVE  ExchangeInv'
  OBVIOUS
<1>1. ASSUME NEW o \in Outputs, NEW v \in Requested, SetVal(o, v)
      PROVE  ExchangeInv'
  BY <1>1, SetValInv
<1>2. ASSUME NEW o \in Outputs, BeginSetting(o)
      PROVE  ExchangeInv'
  BY <1>2, BeginSettingInv
<1>3. CASE DeviceSets
  BY <1>3, DeviceSetsInv
<1>4. CASE FinalizeSetting
  BY <1>4, FinalizeInv
<1>5. CASE Connect \/ ValuesReceived \/ NoValues \/ DeviceRefuses \/ NoAnswer
             \/ SendEot \/ SendExit \/ Close \/ Unregister
  BY <1>5, MoveOnInv
<1>6. CASE UNCHANGED vars
  BY <1>6 DEF vars, ExchangeInv, TypeOK, SettingInProgress, PendingWasRequested,
              ReportedValueWasSet, OnlyRequestedValuesSent, FieldsAreCurrent, AnswersAreCurrent, Clamp
<1>7. CASE (\E i \in Inputs, m \in Measurements : ReceiveValue(i, m)) \/ StoreTimestamp
  BY <1>7, MeasurementInv
<1>8. CASE AnswerGet
  BY <1>8, ReaderInv
<1> QED
  BY <1>1, <1>2, <1>3, <1>4, <1>5, <1>6, <1>7, <1>8 DEF Next, Converse

\* The exchange invariant holds in every reachable state.
THEOREM ExchangeInvariant == Spec => []ExchangeInv
BY ExchangeInit, ExchangeNext, PTL DEF Spec

\* What the server reports is what the device has set, or a change is pending.
THEOREM ReportedValue == Spec => []ReportedValueWasSet
<1>1. ExchangeInv => ReportedValueWasSet
  BY DEF ExchangeInv
<1> QED
  BY <1>1, ExchangeInvariant, PTL

\* No device is sent an uninitialised or unrequested value, or one outside
\* its limits.
THEOREM OnlyRequested == Spec => []OnlyRequestedValuesSent
<1>1. ExchangeInv => OnlyRequestedValuesSent
  BY DEF ExchangeInv
<1> QED
  BY <1>1, ExchangeInvariant, PTL

\* A Q_VAL is about the device's last measurement, or one that overlaps its
\* reading, in both its fields.
THEOREM CurrentAnswers == Spec => []AnswersAreCurrent
<1>1. ExchangeInv => AnswersAreCurrent
  BY DEF ExchangeInv
<1> QED
  BY <1>1, ExchangeInvariant, PTL

\* A pending change is given up only for a value the device has confirmed.
THEOREM Retried == Spec => RetriedUntilConfirmed
<1>1. ASSUME ExchangeInv, [Next]_vars
      PROVE  [\A o \in Outputs : change[o] /\ ~change'[o] => deviceVal[o] = val'[o]]_vars
  <2> SUFFICES ASSUME Next, NEW o \in Outputs, change[o], ~change'[o]
               PROVE  deviceVal[o] = val'[o]
    BY <1>1
  <2>1. FinalizeSetting
    BY <1>1 DEF vars, ExchangeInv, TypeOK, Next, Converse, SetVal, Connect, ValuesReceived, NoValues,
         ReceiveValue, StoreTimestamp, BeginSetting, DeviceSets, DeviceRefuses, NoAnswer, SendEot,
         SendExit, Close, Unregister, AnswerGet, Get, GetVal, GetTimestamp, SendVal, outputVars
  <2>2. o = output
    BY <1>1, <2>1 DEF ExchangeInv, TypeOK, FinalizeSetting
  <2> QED
    BY <1>1, <2>1, <2>2 DEF ExchangeInv, TypeOK, SettingInProgress, FinalizeSetting
<1> QED
  BY <1>1, ExchangeInvariant, PTL DEF Spec, RetriedUntilConfirmed
================================================================================
