------------------------------ MODULE Cursors ------------------------------
(***************************************************************************)
(* The sealed tokens an MCP client carries between stateless requests      *)
(* (federation.rs: seal_cursor, open_cursor; mcp.rs: page and the          *)
(* multi-round conformance tools).  The server keeps nothing per listing   *)
(* and nothing per conversation: all it knows is in the token, sealed with *)
(* a key drawn when the process starts.  Any client may present any token  *)
(* ever issued, at any time, with any request.                             *)
(*                                                                         *)
(* A token is the record its body decodes to, with the key that sealed it; *)
(* a client cannot make one.  The digest of a list is the list.            *)
(***************************************************************************)
EXTENDS Naturals, Sequences, FiniteSets, SequencesExt

CONSTANTS
    Kinds,           \* the lists: tools, resources, resource_templates, prompts
    Catalogues,      \* what a federation may offer: a list for each kind
    TaskTools,       \* tools shown only to a client that supports tasks
    PageSize,        \* 128 in the code
    Rounds,          \* for each multi-round tool the states of its rounds
    MaxEpochs,       \* bound of the model: process starts
    MaxIssued        \* bound of the model: tokens in circulation

(* list_tools and its siblings: what of a list a client may see.           *)
Shown(list, tasks) == SelectSeq(list, LAMBDA item : tasks \/ item \notin TaskTools)

IsSequence(s) == s \in Seq(ToSet(s))

(* The labels of lists and of rounds are literals of mcp.rs, no two alike. *)
CursorsConstants ==
    /\ PageSize \in Nat \ {0}
    /\ \A offer \in Catalogues, kind \in Kinds, tasks \in BOOLEAN :
         IsSequence(Shown(offer[kind], tasks))
    /\ \A tool \in DOMAIN Rounds : IsSequence(Rounds[tool]) /\ Len(Rounds[tool]) \in {1, 2}
    /\ \A tool \in DOMAIN Rounds : ToSet(Rounds[tool]) \cap Kinds = {}
    /\ \A tool, other \in DOMAIN Rounds :
         \A i \in DOMAIN Rounds[tool], j \in DOMAIN Rounds[other] :
           Rounds[tool][i] = Rounds[other][j] => tool = other /\ i = j
    /\ {MaxEpochs, MaxIssued} \subseteq Nat

VARIABLES
    epoch,        \* the running process, which is the key it seals with
    catalogue,    \* what its federation offers: fixed while it runs
    issued,       \* every token ever returned to a client
    begun,        \* history: the tools whose first round this process opened
    outcome       \* what the last request returned

vars == <<epoch, catalogue, issued, begun, outcome>>

Tools == DOMAIN Rounds

Fixture == <<"gaugemesh-conformance-mrtr">>

NoCursor == [key |-> 0, digest |-> <<>>, label |-> "", position |-> 0,
             history |-> <<>>]

NoOutcome == [of |-> "nothing", by |-> "", tasks |-> FALSE, history |-> <<>>]

-----------------------------------------------------------------------------

(* open_cursor: the tag verifies under the key of this process.            *)
Opens(token) == token.key = epoch

(* Tokens are pruned from the model, never by the server: an issue beyond  *)
(* the bound is not explored.                                              *)
Issue(token) ==
    /\ issued' = issued \cup {token}
    /\ Cardinality(issued') <= MaxIssued

Listed(kind, tasks) == Shown(catalogue[kind], tasks)

ContinuesUnchecked(token, kind, items) ==
    /\ Opens(token)
    /\ token.label = kind
    /\ token.position <= Len(items)

(* page: the token belongs to this very list.                              *)
Continues(token, kind, items) ==
    /\ Opens(token)
    /\ token.digest = items
    /\ token.label = kind
    /\ token.position <= Len(items)

Refuse == outcome' = [NoOutcome EXCEPT !.of = "refused"] /\ UNCHANGED issued

(* page: the items up to the next page, or to the end.  A page that is not *)
(* the last comes with a token for the next one.                           *)
Page(kind, tasks, token) ==
    LET items == Listed(kind, tasks)
        start == token.position
        end == IF start + PageSize < Len(items) THEN start + PageSize
                                                ELSE Len(items)
        history == token.history \o SubSeq(items, start + 1, end)
    IN  IF end < Len(items)
        THEN /\ Issue([key |-> epoch, digest |-> items, label |-> kind,
                       position |-> end, history |-> history])
             /\ outcome' = [NoOutcome EXCEPT !.of = "page"]
        ELSE /\ outcome' = [of |-> "listed", by |-> kind, tasks |-> tasks,
                            history |-> history]
             /\ UNCHANGED issued

(* A client asks for a list from its start, or for what follows a token.   *)
List(kind, tasks) ==
    /\ \/ Page(kind, tasks, NoCursor)
       \/ \E token \in issued :
            IF Continues(token, kind, Listed(kind, tasks))
            THEN Page(kind, tasks, token)
            ELSE Refuse
    /\ UNCHANGED <<epoch, catalogue, begun>>

-----------------------------------------------------------------------------

ValidAnyRound(token, round) == Opens(token) /\ token.digest = Fixture

(* validate_conformance_state *)
Valid(token, round) ==
    /\ Opens(token)
    /\ token.digest = Fixture
    /\ token.label = round

(* conformance_state: the token of a round, given the rounds behind it.    *)
State(round, history) ==
    [key |-> epoch, digest |-> Fixture, label |-> round, position |-> 0,
     history |-> history]

Ask(tool, round, history) ==
    /\ Issue(State(round, history))
    /\ outcome' = [NoOutcome EXCEPT !.of = "input required"]

Complete(tool, history) ==
    /\ outcome' = [of |-> "completed", by |-> tool, tasks |-> FALSE,
                   history |-> history]
    /\ UNCHANGED issued

(* A tool with one round asks again for as long as the answers it needs    *)
(* are not all there, and looks at the token only when they are.           *)
CallSingle(tool) ==
    LET round == Rounds[tool][1]
    IN  /\ Len(Rounds[tool]) = 1
        /\ \/ /\ Ask(tool, round, <<>>)
              /\ begun' = begun \cup {tool}
           \/ /\ \E token \in issued :
                   IF Valid(token, round)
                   THEN Complete(tool, Append(token.history, round))
                   ELSE Refuse
              /\ UNCHANGED begun
    /\ UNCHANGED <<epoch, catalogue>>

(* A tool with two rounds is told by the token which round is answered: a  *)
(* call without one opens the first round, and a call whose answer to the  *)
(* round at hand is missing is refused.                                    *)
CallMulti(tool) ==
    LET first == Rounds[tool][1]
        second == Rounds[tool][2]
    IN  /\ Len(Rounds[tool]) = 2
        /\ \/ /\ Ask(tool, first, <<>>)
              /\ begun' = begun \cup {tool}
           \/ /\ \E token \in issued, answered \in BOOLEAN :
                   \/ /\ Valid(token, first) /\ answered
                      /\ Ask(tool, second, Append(token.history, first))
                   \/ /\ ~Valid(token, first) /\ Valid(token, second) /\ answered
                      /\ Complete(tool, Append(token.history, second))
                   \/ /\ ~answered \/ ~(Valid(token, first) \/ Valid(token, second))
                      /\ Refuse
              /\ UNCHANGED begun
    /\ UNCHANGED <<epoch, catalogue>>

-----------------------------------------------------------------------------

Init ==
    /\ epoch = 1
    /\ catalogue \in Catalogues
    /\ issued = {}
    /\ begun = {}
    /\ outcome = NoOutcome

(* The process is started again, with another key and perhaps with another *)
(* federation.  Clients keep their tokens.                                 *)
Restart ==
    /\ epoch < MaxEpochs
    /\ epoch' = epoch + 1
    /\ catalogue' \in Catalogues
    /\ begun' = {}
    /\ outcome' = NoOutcome
    /\ UNCHANGED issued

Next ==
    \/ \E kind \in Kinds, tasks \in BOOLEAN : List(kind, tasks)
    \/ \E tool \in Tools : CallSingle(tool) \/ CallMulti(tool)
    \/ Restart

Spec == Init /\ [][Next]_vars

-----------------------------------------------------------------------------

(* A client that follows tokens to the last page has seen the list that is *)
(* in force for it at that moment, every item once and in order, although  *)
(* the process may have been restarted with another federation between two *)
(* pages, the client's support for tasks may have changed, and tokens of   *)
(* other lists and other clients may have been mixed in.                   *)
WholeList ==
    outcome.of = "listed" => outcome.history = Listed(outcome.by, outcome.tasks)

(* A multi-round tool completes only for a conversation this process has   *)
(* begun, and after every round of that tool has been answered, in order:  *)
(* no token of a list, of another tool or of an earlier process stands in  *)
(* for one of them.                                                        *)
RoundsInOrder ==
    outcome.of = "completed" =>
      outcome.by \in begun /\ outcome.history = Rounds[outcome.by]

(* What comes of a token, whatever other tokens a client holds: the rest   *)
(* of its own list, or the next round of its own conversation.             *)
TokensKept == WholeList /\ RoundsInOrder

=============================================================================
