------------------------- MODULE CloudSessionProofs -------------------------
(***************************************************************************)
(* The tokens of the running poller are those of the entry, whatever the   *)
(* cloud answers, as soon as the account id is known.                      *)
(***************************************************************************)
EXTENDS CloudSession, TLAPS

\* The inductive invariant: a poller runs for an entry only, and asks for the account id
\* only when it has none.
IInv ==
    /\ TypeOK
    /\ EntryIsCurrent
    /\ pc # "down" => flow = "done"
    /\ pc = "profile" => ~tokens.user

-----------------------------------------------------------------------------
LEMMA AnswerTypes == NoTokens \in Tokens /\ Answers \subseteq Tokens
BY DEF Tokens, NoTokens, Answers

LEMMA RotatedType ==
    /\ \A t \in Tokens : Rotated(t) \in Tokens /\ Rotated(t).user = t.user
    /\ Rotated(NoTokens) = NoTokens
BY DEF Tokens, NoTokens, Rotated

LEMMA ExpiredType ==
    /\ \A t \in Tokens : Expired(t) \in Tokens /\ Expired(t).user = t.user
    /\ Expired(NoTokens) = NoTokens
BY DEF Tokens, NoTokens, Expired

LEMMA RevokedType ==
    /\ \A t \in Tokens : Revoked(t) \in Tokens /\ Revoked(t).user = t.user
    /\ Revoked(NoTokens) = NoTokens
<1>1. ASSUME NEW t \in Tokens PROVE Revoked(t) \in Tokens /\ Revoked(t).user = t.user
  <2>1. Expired(t) \in Tokens /\ Expired(t).user = t.user
    BY ExpiredType
  <2> QED BY <2>1 DEF Tokens, Revoked
<1>2. Revoked(NoTokens) = NoTokens
  BY ExpiredType DEF Revoked, NoTokens
<1> QED BY <1>1, <1>2

LEMMA MergeType == \A t \in Tokens, answer \in Answers : Merge(t, answer) \in Tokens
<1> SUFFICES ASSUME NEW t \in Tokens, NEW answer \in Answers PROVE Merge(t, answer) \in Tokens
  OBVIOUS
<1>1. t \in Tokens /\ answer \in Tokens
  BY AnswerTypes
<1>2. (answer.trust \/ t.trust) \in BOOLEAN /\ (answer.user \/ t.user) \in BOOLEAN
  OBVIOUS
<1> QED BY <1>1, <1>2 DEF Tokens, Merge

\* The rest of a session hands changed tokens over, or has no account id.
LEMMA ContinueOK ==
    ASSUME IInv, pc # "down",
           NEW t \in Tokens, NEW new \in BOOLEAN, NEW e \in Tokens,
           Continue(t, new, e), t.user /\ ~new => e = t,
           UNCHANGED <<mfa, up, flow, flowTokens, ok>>, stored' \in Tokens
    PROVE  IInv'
BY DEF IInv, TypeOK, EntryIsCurrent, Continue

LEMMA Initially == Init => IInv
BY AnswerTypes DEF Init, IInv, TypeOK, EntryIsCurrent

LEMMA PollStep ==
    ASSUME IInv, Poll
    PROVE  IInv'
<1> USE AnswerTypes DEF IInv
<1>0. tokens \in Tokens /\ entry \in Tokens /\ stored \in Tokens
  BY DEF TypeOK
<1>1. CASE PollStart
  <2>1. CASE Usable(tokens) /\ Continue(tokens, FALSE, entry)
    <3>1. pc # "down" /\ (tokens.user /\ ~FALSE => entry = tokens)
      BY <1>1 DEF PollStart, EntryIsCurrent
    <3>2. UNCHANGED <<mfa, up, flow, flowTokens, ok>> /\ stored' \in Tokens
      BY <1>0, <1>1 DEF PollStart, flowVars
    <3> QED BY <1>0, <2>1, <3>1, <3>2, ContinueOK
  <2>2. CASE ~(Usable(tokens) /\ Continue(tokens, FALSE, entry))
    <3>1. /\ pc = "idle" /\ pc' \in {"refresh", "grant"}
          /\ UNCHANGED <<mfa, up, flow, flowTokens, tokens, changed, ok, entry, stored>>
      BY <1>1, <2>2 DEF PollStart, flowVars
    <3>2. TypeOK'
      BY <3>1 DEF TypeOK
    <3> QED BY <3>1, <3>2 DEF EntryIsCurrent
  <2> QED BY <2>1, <2>2
<1>2. CASE Refresh
  <2>1. PICK answer \in Answers :
          \E e \in {entry, Rotated(entry)} :
              Continue(Merge(tokens, answer), TRUE, e) /\ stored' \in {stored, Rotated(stored)}
    BY <1>2 DEF Refresh
  <2>2. /\ Merge(tokens, answer) \in Tokens /\ Rotated(entry) \in Tokens
        /\ Rotated(stored) \in Tokens
    BY <1>0, MergeType, RotatedType
  <2>3. pc # "down" /\ UNCHANGED <<mfa, up, flow, flowTokens, ok>>
    BY <1>2 DEF Refresh, flowVars
  <2> QED BY <1>0, <2>1, <2>2, <2>3, ContinueOK
<1>3. CASE Grant
  <2>1. PICK answer \in Answers : Continue(answer, TRUE, entry)
    BY <1>3 DEF Grant
  <2>2. /\ pc # "down" /\ UNCHANGED <<mfa, up, flow, flowTokens, ok>> /\ stored' \in Tokens
        /\ answer \in Tokens
    BY <1>0, <1>3 DEF Grant, flowVars
  <2> QED BY <1>0, <2>1, <2>2, ContinueOK
<1>4. CASE Profile
  <2> DEFINE t == [tokens EXCEPT !.user = TRUE]
  <2>1. t \in Tokens
    BY <1>0 DEF Tokens
  <2>2. /\ Continue(t, TRUE, entry)
        /\ pc # "down" /\ UNCHANGED <<mfa, up, flow, flowTokens, ok>> /\ stored' \in Tokens
    BY <1>0, <1>4 DEF Profile, flowVars
  <2> HIDE DEF t
  <2> QED BY <1>0, <2>1, <2>2, ContinueOK
<1>5. CASE Events
  BY <1>5 DEF Events, TypeOK, EntryIsCurrent, flowVars
<1>6. CASE PollFails
  <2>1. /\ pc # "down" /\ pc' = "idle" /\ ok' = FALSE /\ changed' = FALSE
        /\ UNCHANGED <<mfa, up, flow, flowTokens>>
    BY <1>6 DEF PollFails, flowVars
  <2>2. CASE UNCHANGED <<tokens, entry, stored>>
    BY <2>1, <2>2 DEF TypeOK, EntryIsCurrent
  <2>3. CASE /\ tokens' = Rotated(tokens) /\ entry' = Rotated(entry)
             /\ stored' = Rotated(stored)
    BY <1>0, <2>1, <2>3, RotatedType DEF TypeOK, EntryIsCurrent
  <2> QED BY <1>6, <2>2, <2>3 DEF PollFails, NoAnswer
<1> QED BY <1>1, <1>2, <1>3, <1>4, <1>5, <1>6 DEF Poll

LEMMA OtherStep ==
    ASSUME IInv, Dialogue \/ Start \/ Environment \/ UNCHANGED vars
    PROVE  IInv'
<1> USE AnswerTypes DEF IInv
<1>0. {flowTokens, tokens, entry, stored} \subseteq Tokens
  BY DEF TypeOK
<1>1. CASE FlowUser \/ FlowMfa
  <2>1. flowTokens' \in Tokens
    BY <1>0, <1>1 DEF FlowUser, FlowMfa
  <2> QED BY <1>1, <2>1 DEF FlowUser, FlowMfa, TypeOK, EntryIsCurrent, pollVars
<1>2. CASE FlowDevices \/ FlowSelect \/ FlowAbort
  BY <1>2 DEF FlowDevices, FlowSelect, FlowAbort, TypeOK, EntryIsCurrent, pollVars
<1>3. CASE FlowLocal
  BY <1>3 DEF FlowLocal, TypeOK, EntryIsCurrent, pollVars
<1>4. CASE Start
  BY <1>4 DEF Start, TypeOK, EntryIsCurrent, flowVars
<1>5. CASE Unload
  BY <1>0, <1>5, RotatedType DEF Unload, TypeOK, EntryIsCurrent, flowVars
<1>6. CASE EntryWritten \/ OutageOrRecovery \/ UNCHANGED vars
  <2>1. /\ stored' \in {entry, stored} /\ up' \in BOOLEAN
        /\ UNCHANGED <<mfa, flow, flowTokens, pc, tokens, changed, ok, entry>>
    BY <1>6 DEF EntryWritten, OutageOrRecovery, TypeOK, flowVars, pollVars, vars
  <2>2. TypeOK'
    BY <1>0, <2>1 DEF TypeOK
  <2> QED BY <2>1, <2>2 DEF EntryIsCurrent
<1>7. CASE Crash
  BY <1>0, <1>7, RotatedType DEF Crash, TypeOK, EntryIsCurrent
<1>8. CASE Expire
  BY <1>0, <1>8, ExpiredType DEF Expire, TypeOK, EntryIsCurrent
<1>9. CASE Revoke
  BY <1>0, <1>9, RevokedType DEF Revoke, TypeOK, EntryIsCurrent
<1> QED BY <1>1, <1>2, <1>3, <1>4, <1>5, <1>6, <1>7, <1>8, <1>9 DEF Dialogue, Environment

LEMMA Inductive == Spec => []IInv
<1>1. IInv /\ [Next]_vars => IInv'
  BY PollStep, OtherStep DEF Next
<1> QED BY <1>1, Initially, PTL DEF Spec

-----------------------------------------------------------------------------
\* The types, and no entry without a finished dialogue.
THEOREM TypeCorrect == Spec => []TypeOK
<1>1. IInv => TypeOK
  BY DEF IInv
<1> QED BY <1>1, Inductive, PTL

\* A login never lives in the memory of the poller only, once the account id is known.
THEOREM LoginInEntry == Spec => []EntryIsCurrent
<1>1. IInv => EntryIsCurrent
  BY DEF IInv
<1> QED BY <1>1, Inductive, PTL
=============================================================================
