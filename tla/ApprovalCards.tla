---------------------------- MODULE ApprovalCards ----------------------------
(***************************************************************************)
(* loopos gateway: the messages received and the approval cards sent.      *)
(*                                                                         *)
(* Both are JSON files that a save reads, truncates and writes back.  A    *)
(* truncated file reads as empty; a process that dies while it writes may  *)
(* leave text that is not JSON, and every command that reads it then ends  *)
(* with an error.  Deciding a card reads it, and then reads them all again *)
(* to save it; it asks neither for the card's state nor for its risk.      *)
(* webhook-flow does in one process what three commands do: it stores a    *)
(* message, then a card, then approves the card.                           *)
(***************************************************************************)
EXTENDS Integers, Sequences

CONSTANTS
  Operators,    \* command processes
  Cards,        \* identifiers; each is drawn afresh
  NoCard,       \* no such card
  MaxMessages,  \* bound on the messages received
  MaxDecisions, \* bound on the decisions taken
  MaxCardDeaths \* bound on the processes that die

ASSUME CardsAssumptions ==
  /\ NoCard \notin {"pending", "approved", "denied"}
  /\ MaxMessages \in Nat
  /\ MaxDecisions \in Nat
  /\ MaxCardDeaths \in Nat

VARIABLES
  cards,    \* the status of each card in the file
  messages, \* how many messages the file holds
  broken,   \* the files whose text is not JSON
  command,  \* what each process is doing
  told      \* what has happened, for the properties only

cardsVars == <<cards, messages, broken, command, told>>

CardStatuses == {"pending", "approved", "denied"}

CardFiles == [Cards -> CardStatuses \union {NoCard}]

NoCards == [c \in Cards |-> NoCard]

\* todo is what is left to do, stage how far the first of it has come, and
\* listed what was read of the file.
Waiting == [todo |-> <<>>, stage |-> "start", card |-> NoCard, approve |-> FALSE,
            listed |-> NoCards, count |-> 0]

CardsInit ==
  /\ cards = NoCards
  /\ messages = 0
  /\ broken = {}
  /\ command = [p \in Operators |-> Waiting]
  /\ told = [drawn |-> {}, received |-> 0, decisions |-> 0, deaths |-> 0, overlapped |-> FALSE,
             filed |-> {}, decided |-> NoCards]

Busy(p) == command[p].todo # <<>>

Doing(p, what, stage) == Busy(p) /\ command[p].todo[1] = what /\ command[p].stage = stage

Proceed(p) == [command EXCEPT ![p].todo = Tail(@), ![p].stage = "start"]

\* The process ends with an error.
Fail(p) == [command EXCEPT ![p] = Waiting]

-----------------------------------------------------------------------------
(* Starting a command. *)

Start(p, todo, card, approve) ==
  /\ ~Busy(p)
  /\ command' = [command EXCEPT ![p] = [Waiting EXCEPT !.todo = todo, !.card = card,
                                                      !.approve = approve]]
  /\ told' = [told EXCEPT
       !.overlapped = @ \/ \E q \in Operators : Busy(q),
       !.received = @ + (IF todo[1] = "message" THEN 1 ELSE 0),
       !.decisions = @ + (IF todo[Len(todo)] = "decide" THEN 1 ELSE 0),
       !.drawn = @ \union (IF \E i \in DOMAIN todo : todo[i] = "card" THEN {card} ELSE {})]
  /\ UNCHANGED <<cards, messages, broken>>

Simulate(p) ==
  told.received < MaxMessages /\ Start(p, <<"message">>, NoCard, FALSE)

SendCard(p, c) == c \notin told.drawn /\ Start(p, <<"card">>, c, FALSE)

\* Any card may be decided at any time, once more too.
DecideCard(p, c, approve) ==
  /\ told.decisions < MaxDecisions
  /\ c \in told.drawn
  /\ Start(p, <<"decide">>, c, approve)

\* A user that is not on the list is turned away before anything is stored; a
\* risk that no card can have, only after the message is.
WebhookFlow(p, c, riskKnown) ==
  /\ told.received < MaxMessages /\ told.decisions < MaxDecisions
  /\ c \notin told.drawn
  /\ Start(p, IF riskKnown THEN <<"message", "card", "decide">> ELSE <<"message">>, c, TRUE)

-----------------------------------------------------------------------------
(* The files. *)

\* decide finds the card first.
Load(p) ==
  /\ Doing(p, "decide", "start")
  /\ command' = IF "cards" \in broken \/ cards[command[p].card] = NoCard THEN Fail(p)
                ELSE [command EXCEPT ![p].stage = "list"]
  /\ UNCHANGED <<cards, messages, broken, told>>

Decided(p) == IF command[p].todo[1] = "card" THEN "pending"
              ELSE IF command[p].approve THEN "approved" ELSE "denied"

\* Mutant: only the card being saved is written back.
ListCardAlone(p) ==
  /\ Doing(p, "card", "start") \/ Doing(p, "decide", "list")
  /\ command' = IF "cards" \in broken THEN Fail(p)
                ELSE [command EXCEPT ![p].stage = "truncate",
                                     ![p].listed = [NoCards EXCEPT ![command[p].card] = Decided(p)]]
  /\ UNCHANGED <<cards, messages, broken, told>>

ListCards(p) ==
  /\ Doing(p, "card", "start") \/ Doing(p, "decide", "list")
  /\ command' = IF "cards" \in broken THEN Fail(p)
                ELSE [command EXCEPT ![p].stage = "truncate",
                                     ![p].listed = [cards EXCEPT ![command[p].card] = Decided(p)]]
  /\ UNCHANGED <<cards, messages, broken, told>>

TruncateCards(p) ==
  /\ Doing(p, "card", "truncate") \/ Doing(p, "decide", "truncate")
  /\ command' = [command EXCEPT ![p].stage = "write"]
  /\ cards' = NoCards
  /\ broken' = broken \ {"cards"}
  /\ UNCHANGED <<messages, told>>

\* The card is filed, and what was decided is reported.
WriteCards(p) ==
  /\ Doing(p, "card", "write") \/ Doing(p, "decide", "write")
  /\ cards' = command[p].listed
  /\ command' = IF Len(command[p].todo) = 1 THEN Fail(p) ELSE Proceed(p)
  /\ told' = [told EXCEPT !.filed = @ \union {command[p].card},
                          !.decided[command[p].card] = Decided(p)]
  /\ UNCHANGED <<messages, broken>>

ListMessages(p) ==
  /\ Doing(p, "message", "start")
  /\ command' = IF "messages" \in broken THEN Fail(p)
                ELSE [command EXCEPT ![p].stage = "truncate", ![p].count = messages]
  /\ UNCHANGED <<cards, messages, broken, told>>

TruncateMessages(p) ==
  /\ Doing(p, "message", "truncate")
  /\ command' = [command EXCEPT ![p].stage = "write"]
  /\ messages' = 0
  /\ broken' = broken \ {"messages"}
  /\ UNCHANGED <<cards, told>>

WriteMessages(p) ==
  /\ Doing(p, "message", "write")
  /\ messages' = command[p].count + 1
  /\ command' = IF Len(command[p].todo) = 1 THEN Fail(p) ELSE Proceed(p)
  /\ UNCHANGED <<cards, broken, told>>

CardDeath(p, torn) ==
  /\ Busy(p)
  /\ told.deaths < MaxCardDeaths
  /\ torn => command[p].stage = "write"
  /\ broken' = IF torn THEN broken \union {IF command[p].todo[1] = "message"
                                           THEN "messages" ELSE "cards"}
               ELSE broken
  /\ command' = Fail(p)
  /\ told' = [told EXCEPT !.deaths = @ + 1]
  /\ UNCHANGED <<cards, messages>>

CardsNext ==
  \/ \E p \in Operators : Simulate(p)
  \/ \E p \in Operators, c \in Cards : SendCard(p, c)
  \/ \E p \in Operators, c \in Cards, approve \in BOOLEAN : DecideCard(p, c, approve)
  \/ \E p \in Operators, c \in Cards, riskKnown \in BOOLEAN : WebhookFlow(p, c, riskKnown)
  \/ \E p \in Operators :
        \/ Load(p) \/ ListCards(p) \/ TruncateCards(p) \/ WriteCards(p)
        \/ ListMessages(p) \/ TruncateMessages(p) \/ WriteMessages(p)
  \/ \E p \in Operators, torn \in BOOLEAN : CardDeath(p, torn)

CardsSpec == CardsInit /\ [][CardsNext]_cardsVars

-----------------------------------------------------------------------------
(* Properties. *)

CardsTypeOK ==
  /\ cards \in CardFiles
  /\ messages \in 0..MaxMessages
  /\ broken \subseteq {"cards", "messages"}
  /\ \A p \in Operators :
       /\ command[p].todo \in {<<>>, <<"message">>, <<"card">>, <<"decide">>, <<"card", "decide">>,
                               <<"message", "card", "decide">>}
       /\ command[p].stage \in {"start", "list", "truncate", "write"}
       /\ command[p].listed \in CardFiles
       /\ command[p].count \in 0..MaxMessages

\* With commands run one at a time, none of which died, a card has in the file
\* the last decision that was reported for it, whatever was decided before or
\* filed for other cards since (GatewayStore.decide and save_approval).
DecisionsStand ==
  ~told.overlapped /\ told.deaths = 0 /\ (\A p \in Operators : command[p].stage # "write") =>
    \A c \in told.filed : cards[c] = told.decided[c]
=============================================================================
