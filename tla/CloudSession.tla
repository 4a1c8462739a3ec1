---------------------------- MODULE CloudSession ----------------------------
(***************************************************************************)
(* The account session: the tokens that the setup dialogue (config_flow)   *)
(* obtains, that the poller (coordinator) renews and hands to the config   *)
(* entry, and that Home Assistant writes to disk a little later.           *)
(*                                                                         *)
(* A token is what the cloud makes of it: still accepted or not.  The      *)
(* cloud may be out of reach, before or after it handled a request; it     *)
(* rotates refresh tokens, and an access token may end before it said so.  *)
(***************************************************************************)
EXTENDS FiniteSets

CONSTANT
    MayReload    \* bound: the entry may be reloaded, and the process may die

ASSUME MayReloadAssumption == MayReload \in BOOLEAN

VARIABLES
    mfa,         \* the account asks for a code unless a trust token is given
    up,          \* requests reach the cloud and answers come back
    flow,        \* the step of the setup dialogue
    flowTokens,  \* its _tokens
    pc,          \* the request async_poll awaits
    tokens,      \* _tokens of the coordinator
    changed,     \* of _async_ensure_session
    ok,          \* the last poll succeeded
    entry,       \* the tokens in the data of the config entry
    stored       \* the same on disk

flowVars == <<flow, flowTokens>>
pollVars == <<pc, tokens, changed, ok>>
vars == <<mfa, up, flowVars, pollVars, entry, stored>>

\* expiry "unknown": expires_at is 0 because the answer had no lifetime.
Tokens ==
    [access : {"none", "valid", "dead"}, refresh : {"none", "valid", "dead"},
     trust : BOOLEAN, user : BOOLEAN, expiry : {"unknown", "later", "past"}]

\* Without an entry the integration is not set up.
NoTokens ==
    [access |-> "none", refresh |-> "none", trust |-> FALSE, user |-> FALSE,
     expiry |-> "unknown"]

\* tokens_from_payload: everything but the access token may be missing.
Answers ==
    {t \in Tokens : t.access = "valid" /\ t.refresh # "dead" /\ t.expiry # "past"}

Init ==
    /\ mfa \in BOOLEAN /\ up = TRUE
    /\ flow = "user" /\ flowTokens = NoTokens
    /\ pc = "down" /\ tokens = NoTokens /\ changed = FALSE /\ ok = FALSE
    /\ entry = NoTokens /\ stored = NoTokens

-----------------------------------------------------------------------------
(* The setup dialogue.  A failing request shows the same form again.       *)

\* Password grant; the code is sent in the same step when it is asked for.
FlowUser ==
    /\ flow = "user" /\ entry = NoTokens /\ up
    /\ \/ mfa /\ flow' = "mfa" /\ UNCHANGED flowTokens
       \/ ~mfa /\ flow' = "device" /\ flowTokens' \in {t \in Answers : ~t.trust}
    /\ UNCHANGED <<mfa, up, pollVars, entry, stored>>

\* The verified grant, which may return a trust token; a wrong code is asked for again.
FlowMfa ==
    /\ flow = "mfa" /\ up
    /\ flow' = "device" /\ flowTokens' \in Answers
    /\ UNCHANGED <<mfa, up, pollVars, entry, stored>>

\* The devices of the account are asked for once.
FlowDevices ==
    /\ flow = "device" /\ up /\ flowTokens.access = "valid"
    /\ flow' = "select"
    /\ UNCHANGED <<mfa, up, flowTokens, pollVars, entry, stored>>

\* A legacy device that no entry has.
FlowSelect ==
    /\ flow = "select" /\ flow' = "local"
    /\ UNCHANGED <<mfa, up, flowTokens, pollVars, entry, stored>>

\* No device, no legacy device, a configured one, no LAN; or the user closes the dialogue.
FlowAbort ==
    /\ flow \notin {"user", "done"}
    /\ flow' = "user" /\ flowTokens' = NoTokens
    /\ UNCHANGED <<mfa, up, pollVars, entry, stored>>

\* Mutant: the dialogue goes on after the entry was created.
FlowLocalGoesOn ==
    /\ flow = "local" /\ entry' = flowTokens
    /\ UNCHANGED <<mfa, up, flowVars, pollVars, stored>>

\* The camera accepted the local credentials.
FlowLocal ==
    /\ flow = "local"
    /\ flow' = "done" /\ entry' = flowTokens /\ flowTokens' = NoTokens
    /\ UNCHANGED <<mfa, up, pollVars, stored>>

-----------------------------------------------------------------------------
(* The poller.                                                             *)

\* async_setup_entry.
Start ==
    /\ pc = "down" /\ entry # NoTokens
    /\ pc' = "idle" /\ tokens' = entry /\ changed' = FALSE /\ ok' = FALSE
    /\ UNCHANGED <<mfa, up, flowVars, entry, stored>>

\* Mutant: the lifetime is not looked at.
UsableDespiteExpiry(t) == t.access # "none"
Usable(t) == t.access # "none" /\ t.expiry # "past"

\* The rest of _async_ensure_session with tokens t, changed or not, and e in the entry:
\* without an account id it is asked for; then changed tokens are handed to the entry.
\* Mutant: only a new account id is handed to the entry.
ContinueUnsaved(t, new, e) ==
    /\ tokens' = t /\ changed' = FALSE /\ entry' = e
    /\ pc' = IF t.user THEN "events" ELSE "profile"

Continue(t, new, e) ==
    /\ tokens' = t
    /\ \/ t.user /\ pc' = "events" /\ changed' = FALSE /\ entry' = IF new THEN t ELSE e
       \/ ~t.user /\ pc' = "profile" /\ changed' = new /\ entry' = e

PollStart ==
    /\ pc = "idle"
    /\ \/ Usable(tokens) /\ Continue(tokens, FALSE, entry)
       \/ /\ ~Usable(tokens)
          /\ pc' = IF tokens.refresh # "none" THEN "refresh" ELSE "grant"
          /\ UNCHANGED <<tokens, changed, entry>>
    /\ UNCHANGED <<mfa, up, flowVars, ok, stored>>

\* The cloud replaced the refresh token of t.
Rotated(t) == [t EXCEPT !.refresh = IF @ = "valid" THEN "dead" ELSE @]

\* async_refresh_session keeps what the answer leaves out.
Merge(t, answer) ==
    [answer EXCEPT !.refresh = IF @ = "none" THEN t.refresh ELSE @,
                   !.trust = @ \/ t.trust,
                   !.user = @ \/ t.user]

Refresh ==
    /\ pc = "refresh" /\ up /\ tokens.refresh = "valid"
    /\ \E answer \in Answers :
        IF answer.refresh = "none"
        THEN Continue(Merge(tokens, answer), TRUE, entry) /\ UNCHANGED stored
        ELSE Continue(Merge(tokens, answer), TRUE, Rotated(entry)) /\ stored' = Rotated(stored)
    /\ UNCHANGED <<mfa, up, flowVars, ok>>

\* The answer replaces the trust token and the account id, too.
Grant ==
    /\ pc = "grant" /\ up /\ (mfa => tokens.trust)
    /\ \E answer \in Answers : Continue(answer, TRUE, entry)
    /\ UNCHANGED <<mfa, up, flowVars, ok, stored>>

Profile ==
    /\ pc = "profile" /\ up /\ tokens.access = "valid"
    /\ Continue([tokens EXCEPT !.user = TRUE], TRUE, entry)
    /\ UNCHANGED <<mfa, up, flowVars, ok, stored>>

Events ==
    /\ pc = "events" /\ up /\ tokens.access = "valid"
    /\ pc' = "idle" /\ ok' = TRUE
    /\ UNCHANGED <<mfa, up, flowVars, tokens, changed, entry, stored>>

Rejected ==
    \/ pc = "refresh" /\ tokens.refresh = "dead"
    \/ pc = "grant" /\ mfa /\ ~tokens.trust
    \/ pc \in {"profile", "events"} /\ tokens.access = "dead"

\* A refresh that gets no answer may have been handled.
NoAnswer ==
    \/ UNCHANGED <<tokens, entry, stored>>
    \/ /\ pc = "refresh"
       /\ tokens' = Rotated(tokens) /\ entry' = Rotated(entry) /\ stored' = Rotated(stored)

\* Every exception ends the poll.
PollFails ==
    /\ pc \in {"refresh", "grant", "profile", "events"}
    /\ \/ ~up /\ NoAnswer
       \/ up /\ Rejected /\ UNCHANGED <<tokens, entry, stored>>
    /\ pc' = "idle" /\ ok' = FALSE /\ changed' = FALSE
    /\ UNCHANGED <<mfa, up, flowVars>>

-----------------------------------------------------------------------------
(* Home Assistant, the cloud and time.                                     *)

\* The poll task is cancelled; the coordinator is dropped.
Unload ==
    /\ pc # "down" /\ MayReload
    /\ pc' = "down" /\ tokens' = NoTokens /\ changed' = FALSE /\ ok' = FALSE
    /\ \/ UNCHANGED <<entry, stored>>
       \/ pc = "refresh" /\ entry' = Rotated(entry) /\ stored' = Rotated(stored)
    /\ UNCHANGED <<mfa, up, flowVars>>

\* async_update_entry schedules the write (external).
EntryWritten ==
    /\ stored' = entry
    /\ UNCHANGED <<mfa, up, flowVars, pollVars, entry>>

Crash ==
    /\ MayReload
    /\ pc' = "down" /\ tokens' = NoTokens /\ changed' = FALSE /\ ok' = FALSE
    /\ \/ entry' = stored /\ UNCHANGED stored
       \/ pc = "refresh" /\ entry' = Rotated(stored) /\ stored' = Rotated(stored)
    /\ flow' = IF stored = NoTokens THEN "user" ELSE "done"
    /\ flowTokens' = NoTokens
    /\ UNCHANGED <<mfa, up>>

OutageOrRecovery ==
    /\ up' = ~up
    /\ UNCHANGED <<mfa, flowVars, pollVars, entry, stored>>

\* The announced lifetime of the access tokens is over, or they end without notice.
Expired(t) ==
    [t EXCEPT !.access = IF @ = "valid" THEN "dead" ELSE @,
              !.expiry = IF @ = "later" THEN "past" ELSE @]
Revoked(t) == [Expired(t) EXCEPT !.expiry = t.expiry]

Expire ==
    /\ tokens' = Expired(tokens) /\ entry' = Expired(entry) /\ stored' = Expired(stored)
    /\ flowTokens' = Expired(flowTokens)
    /\ UNCHANGED <<mfa, up, flow, pc, changed, ok>>

Revoke ==
    /\ tokens' = Revoked(tokens) /\ entry' = Revoked(entry) /\ stored' = Revoked(stored)
    /\ flowTokens' = Revoked(flowTokens)
    /\ UNCHANGED <<mfa, up, flow, pc, changed, ok>>

-----------------------------------------------------------------------------
Dialogue ==
    \/ FlowUser \/ FlowMfa \/ FlowDevices \/ FlowSelect \/ FlowLocal \/ FlowAbort

Poll == PollStart \/ Refresh \/ Grant \/ Profile \/ Events \/ PollFails

Environment == Unload \/ EntryWritten \/ Crash \/ OutageOrRecovery \/ Expire \/ Revoke

Next == Dialogue \/ Start \/ Poll \/ Environment

Spec == Init /\ [][Next]_vars

\* The poll task runs; the lifetime of a token comes to its end, but not again and again
\* in the middle of a poll.
FairSpec ==
    Spec /\ WF_vars(Poll) /\ WF_vars(Expire) /\ SF_vars(Profile) /\ SF_vars(Events)

-----------------------------------------------------------------------------
TypeOK ==
    /\ mfa \in BOOLEAN /\ up \in BOOLEAN
    /\ flow \in {"user", "mfa", "device", "select", "local", "done"}
    /\ pc \in {"down", "idle", "refresh", "grant", "profile", "events"}
    /\ {flowTokens, tokens, entry, stored} \subseteq Tokens
    /\ changed \in BOOLEAN /\ ok \in BOOLEAN
    /\ entry # NoTokens => flow = "done"
    /\ pc \notin {"down", "profile"} => ~changed

\* What a reload would start with is what the poller has, unless the account id is not
\* known yet: a login never lives in the memory of the poller only.
EntryIsCurrent == pc # "down" => tokens = entry \/ ~tokens.user

\* The states of the login that the code cannot leave: an access token that ended and
\* had no lifetime, a replaced refresh token, and a code that nobody is asked for.
Endless(t) == t.access = "dead" /\ t.expiry = "unknown"
Replaced(t) == t.access = "dead" /\ t.refresh = "dead"
NeedsCode(t) == t.access = "dead" /\ t.refresh = "none" /\ mfa /\ ~t.trust

Reachable == up /\ pc # "down"
Works == ok /\ pc = "idle"

\* Polls succeed again and again once the cloud is reachable, after outages, reloads and
\* access tokens that ended without notice, unless the login is in one of these states.
PollSucceedsAgain ==
    <>[](Reachable /\ ~Endless(tokens) /\ ~Replaced(tokens) /\ ~NeedsCode(tokens))
        => []<>Works

\* "poller must survive cloud outages" (coordinator.async_poll): an outage, whatever it
\* did to the one request it met, does not end the polling for ever.
PollRecovers ==
    <>[](Reachable /\ ~Endless(tokens) /\ ~NeedsCode(tokens)) => []<>Works
=============================================================================
