----------------------------- MODULE Approvals ------------------------------
(***************************************************************************)
(* Approval of elicitations (approval.rs, GatewayClient of outbound.rs):   *)
(* a request from an upstream source is declined, answered by a static     *)
(* response, put to the operator on the terminal, or to a signed webhook.  *)
(*                                                                         *)
(* The terminal is where it is hard: prompts of one connection take turns  *)
(* under its cli_lock, but a read of stdin that has been started cannot be *)
(* called off, and goes on when the request that wanted it has timed out;  *)
(* and a line that no read waits for stays in the terminal for the next.   *)
(***************************************************************************)
EXTENDS Naturals, FiniteSets, Sequences

CONSTANTS
    Requests,
    Connections,
    MaxUnread,      \* bound: lines that the terminal keeps
    Nobody

ApprovalConstants == Nobody \notin Requests /\ MaxUnread \in Nat

Policies == {"deny", "static_policy", "local_cli", "signed_webhook"}

\* What a line is for the form of a request: content that fits, anything that does not
\* (no JSON, too much of it, or the end of the input), or a word.
Answers == {"valid", "invalid", "decline", "cancel"}

VARIABLES
    home,       \* the connection that a request came over
    policy,     \* the policy of every connection
    form,       \* the requests that ask for a form, and not for a URL
    state,      \* state[r]: where a request is, at last its outcome
    cliLock,    \* who holds the cli_lock of every connection
    readers,    \* reads of stdin that block, whoever still waits for them
    reader,     \* the read that holds stdin
    screen,     \* the request whose prompt was shown last
    lines,      \* lines typed that no read has taken, with the prompt they were typed at
    typed,      \* history: the first line typed at each prompt, once it was shown
    unasked,    \* history: a line was typed before any prompt, or as a prompt's second
    inTime,     \* history: the requests answered while their prompt was waiting
    source      \* history: the request at whose prompt an accepted answer was typed

vars == <<home, policy, form, state, cliLock, readers, reader, screen, lines, typed,
          unasked, inTime, source>>

terminal == <<cliLock, readers, reader, screen, lines, typed, unasked, inTime>>
fixed == <<home, policy, form>>

Outcomes == {"accept", "decline", "cancel", "error"}

-----------------------------------------------------------------------------
(* Decisions                                                               *)

\* validate_form_response: only forms have content that can be accepted.
Fits(r, answer) == answer = "valid" /\ r \in form

\* What a request is answered, given an answer.
Decision(r, answer) ==
    CASE answer \in {"decline", "cancel"}   -> answer
      [] Fits(r, answer)                    -> "accept"
      [] OTHER                              -> "error"

\* Request r ends as `outcome', on an answer that was typed at the prompt of `meant'.
Decide(r, outcome, meant) ==
    /\ state' = [state EXCEPT ![r] = outcome]
    /\ source' = IF outcome = "accept" THEN [source EXCEPT ![r] = meant] ELSE source

\* handle, for the policies that answer at once.  Without a terminal a prompt is declined.
Handle(r) ==
    /\ state[r] = "new"
    /\ CASE policy[home[r]] = "deny" -> Decide(r, "decline", r)
         [] policy[home[r]] = "static_policy" ->
              \E answer \in {"valid", "invalid"} : Decide(r, Decision(r, answer), r)
         [] policy[home[r]] = "local_cli" ->
              state' = [state EXCEPT ![r] = "queued"] /\ UNCHANGED source
         [] OTHER ->
              state' = [state EXCEPT ![r] = "posted"] /\ UNCHANGED source
    /\ UNCHANGED <<fixed, terminal>>

-----------------------------------------------------------------------------
(* The terminal                                                            *)

\* A read is started; it may have to wait for stdin, behind others.
StartRead(r) ==
    /\ cliLock' = [cliLock EXCEPT ![home[r]] = r]
    /\ state' = [state EXCEPT ![r] = "prompted"]
    /\ readers' = readers \cup {r}
    /\ reader' = IF reader = Nobody THEN r ELSE reader
    /\ UNCHANGED <<lines, source>>

\* The read gets at once what was left in the terminal; nothing discards it.
ReadLeftOver(r) ==
    /\ Decide(r, Decision(r, Head(lines).answer), Head(lines).screen)
    /\ lines' = Tail(lines)
    /\ UNCHANGED <<cliLock, readers, reader>>

\* Mutant: the guard of the lock is dropped at once.
PromptUnlocked(r) ==
    /\ state[r] = "queued"
    /\ screen' = r /\ typed' = [typed EXCEPT ![r] = "nothing"]
    /\ IF lines = <<>> THEN StartRead(r) ELSE ReadLeftOver(r)
    /\ UNCHANGED <<fixed, unasked, inTime>>

\* The prompt is shown, and a line is read.
Prompt(r) ==
    /\ state[r] = "queued" /\ cliLock[home[r]] = Nobody
    /\ screen' = r /\ typed' = [typed EXCEPT ![r] = "nothing"]
    /\ IF lines = <<>> THEN StartRead(r) ELSE ReadLeftOver(r)
    /\ UNCHANGED <<fixed, unasked, inTime>>

Unlocked(r) == [c \in Connections |-> IF cliLock[c] = r THEN Nobody ELSE cliLock[c]]

\* A line goes to the read that holds stdin, and is lost with it if its request is over.
Taken(answer) ==
    LET rest == readers \ {reader} IN
    /\ reader # Nobody
    /\ readers' = rest
    /\ reader' \in IF rest = {} THEN {Nobody} ELSE rest
    /\ IF state[reader] = "prompted"
       THEN /\ Decide(reader, Decision(reader, answer), screen)
            /\ cliLock' = Unlocked(reader)
       ELSE UNCHANGED <<state, source, cliLock>>
    /\ UNCHANGED lines

\* No read waits: the terminal keeps it.
Kept(answer) ==
    /\ reader = Nobody /\ Len(lines) < MaxUnread
    /\ lines' = Append(lines, [answer |-> answer, screen |-> screen])
    /\ UNCHANGED <<state, source, cliLock, readers, reader>>

\* The operator types a line, whatever is on the screen.
Type(answer) ==
    /\ IF screen # Nobody /\ typed[screen] = "nothing"
       THEN /\ typed' = [typed EXCEPT ![screen] = answer]
            /\ inTime' = IF state[screen] = "prompted" THEN inTime \cup {screen} ELSE inTime
            /\ UNCHANGED unasked
       ELSE unasked' = TRUE /\ UNCHANGED <<typed, inTime>>
    /\ Taken(answer) \/ Kept(answer)
    /\ UNCHANGED <<fixed, screen>>

\* LOCAL_CLI_TIMEOUT, or the request is dropped; the read stays.
TimeOut(r) ==
    /\ state[r] = "prompted"
    /\ state' = [state EXCEPT ![r] = "error"]
    /\ cliLock' = Unlocked(r)
    /\ UNCHANGED <<fixed, readers, reader, screen, lines, typed, unasked, inTime, source>>

-----------------------------------------------------------------------------
(* The webhook                                                             *)

\* The response has the nonce of the request and a good signature; a word comes without
\* content, and content only with an acceptance.
Respond(r, answer) ==
    /\ state[r] = "posted"
    /\ Decide(r, Decision(r, answer), r)
    /\ UNCHANGED <<fixed, terminal>>

\* Resolving, sending, the status, the headers, the signature or the size fail, or time
\* runs out.
WebhookFails(r) ==
    /\ state[r] = "posted"
    /\ Decide(r, "error", r)
    /\ UNCHANGED <<fixed, terminal>>

-----------------------------------------------------------------------------
Init ==
    /\ home \in [Requests -> Connections]
    /\ policy \in [Connections -> Policies]
    /\ form \in SUBSET Requests
    /\ state = [r \in Requests |-> "new"]
    /\ cliLock = [c \in Connections |-> Nobody]
    /\ readers = {} /\ reader = Nobody /\ screen = Nobody
    /\ lines = <<>>
    /\ typed = [r \in Requests |-> "hidden"] /\ unasked = FALSE /\ inTime = {}
    /\ source = [r \in Requests |-> Nobody]

Next ==
    \/ \E r \in Requests :
          \/ Handle(r) \/ Prompt(r) \/ TimeOut(r) \/ WebhookFails(r)
          \/ \E answer \in Answers : Respond(r, answer)
    \/ \E answer \in Answers : Type(answer)

Spec == Init /\ [][Next]_vars

-----------------------------------------------------------------------------
\* A request is accepted only on content that fits its form, and never under a deny
\* policy.  On the terminal it is accepted on the line that the operator typed at its
\* own prompt, whatever times out and is answered late, as long as the operator has
\* typed no line before the first prompt and no second line at any.
AcceptedAsAnswered ==
    \A r \in Requests : state[r] = "accept" =>
        /\ r \in form
        /\ policy[home[r]] # "deny"
        /\ policy[home[r]] = "local_cli" /\ ~unasked => source[r] = r /\ typed[r] = "valid"

\* What is accepted was typed at the prompt.  Not kept, and checked by no run: a line
\* left over from an earlier prompt answers the next, and shifts all that follow.
AnsweredAtPrompt ==
    \A r \in Requests : state[r] = "accept" /\ policy[home[r]] = "local_cli" => source[r] = r

\* The prompt asks for an answer: one that is given while it waits decides the request.
\* Not kept, and checked by no run: the read of a prompt that timed out swallows it.
AnswerHeard == \A r \in inTime : state[r] = Decision(r, typed[r])
=============================================================================
