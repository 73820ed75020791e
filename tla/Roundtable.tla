----------------------------- MODULE Roundtable -----------------------------
(***************************************************************************)
(* RoundtableAgent (agents/roundtable.py): the cards of a roster that are  *)
(* asked, a pool of threads that sends every one of them a copy of the     *)
(* same task through A2AExchange, the conversation assembled from what     *)
(* they return, and its synthesis.  Other users of the transports, the     *)
(* a2a-call command (cli.py:937-994), run beside it.                       *)
(*                                                                         *)
(* Abstracted: prompts and answers.                                        *)
(***************************************************************************)
EXTENDS A2AExchange

CONSTANTS Roster,          (* AgentRoster.all(): the cards, in order       *)
          Has,             (* the skills each card is found by             *)
          Sessions,        (* what users ask for: the skills needed at the
                              table, its least and greatest size, and the
                              calls made beside it                         *)
          PoolSize,        (* _MAX_WORKERS                                 *)
          Synthesizer      (* the call on the synthesizer's card           *)

Cards == { Roster[k] : k \in DOMAIN Roster }

ASSUME RoundtableAssumption ==
  /\ Roster \in Seq(Calls) /\ Synthesizer \in Calls
  /\ \A k, l \in DOMAIN Roster : Roster[k] = Roster[l] => k = l
  /\ DOMAIN Has = Cards
  /\ \A s \in Sessions : /\ s.needed \in Seq(STRING)
                         /\ s.least \in Nat /\ s.most \in Nat
                         /\ s.callers \subseteq Calls \ (Cards \cup {Synthesizer})
  /\ PoolSize \in Nat \ {0}

VARIABLES
  session,       (* the arguments of discuss, and the users of a2a-call    *)
  cards,         (* selected in _pick_cards                                *)
  stage,         (* picking, filling, discussing, quoting, synthesizing,
                    done                                                   *)
  next,          (* the position a loop of that stage has come to          *)
  finished,      (* the calls in the order as_completed yielded them       *)
  conversation,  (* who is quoted as whose card, in order                  *)
  verdict        (* what synthesize returned                               *)

tableVars == <<session, cards, stage, next, finished, conversation, verdict>>
allVars == <<vars, tableVars>>
-----------------------------------------------------------------------------
TableInit == /\ Init
             /\ session \in Sessions
             /\ cards = <<>> /\ stage = "picking" /\ next = 1
             /\ finished = <<>> /\ conversation = <<>> /\ verdict = "none"

Asked == { cards[i] : i \in DOMAIN cards }
Full == Len(cards) >= session.most

(* _pick_cards: one card per needed skill, each card once ...              *)
Pick ==
  /\ stage = "picking" /\ next <= Len(session.needed) /\ ~Full
  /\ LET fresh == { k \in DOMAIN Roster : /\ session.needed[next] \in Has[Roster[k]]
                                          /\ Roster[k] \notin Asked }
     IN  \/ fresh = {} /\ UNCHANGED cards
         \/ \E k \in fresh : /\ \A l \in fresh : k <= l
                             /\ cards' = Append(cards, Roster[k])
  /\ next' = next + 1
  /\ UNCHANGED <<vars, session, stage, finished, conversation, verdict>>

PickEnds ==
  /\ stage = "picking" /\ (next > Len(session.needed) \/ Full)
  /\ stage' = IF Len(cards) < session.least THEN "filling" ELSE "discussing"
  /\ next' = 1
  /\ UNCHANGED <<vars, session, cards, finished, conversation, verdict>>

(* ... then, when these are too few, any others, up to the maximum.  (The
   cap on what is returned never takes a card away.)                       *)
Fill ==
  /\ stage = "filling" /\ next <= Len(Roster) /\ ~Full
  /\ cards' = IF Roster[next] \in Asked THEN cards ELSE Append(cards, Roster[next])
  /\ next' = next + 1
  /\ UNCHANGED <<vars, session, stage, finished, conversation, verdict>>

FillEnds ==
  /\ stage = "filling" /\ (next > Len(Roster) \/ Full)
  /\ stage' = "discussing" /\ next' = 1
  /\ UNCHANGED <<vars, session, cards, finished, conversation, verdict>>
-----------------------------------------------------------------------------
Running == { c \in Asked : pc[c] \notin {"idle", "done"} }
Workers == IF Len(cards) < PoolSize THEN Len(cards) ELSE PoolSize

(* Mutant: the base task itself is handed to every participant.            *)
BaseTask(c) == IF c \in Asked THEN cards[1] ELSE c

(* base_task.model_copy(deep=True): an object of the call's own.           *)
DeepCopy(c) == c

(* A worker of the pool takes the next card.                               *)
Submit(i) ==
  /\ stage = "discussing" /\ i \in DOMAIN cards
  /\ \A j \in 1..(i - 1) : pc[cards[j]] # "idle"
  /\ Cardinality(Running) < Workers
  /\ Send(cards[i], DeepCopy(cards[i]))
  /\ UNCHANGED tableVars

(* as_completed yields a future.                                           *)
Collected == { finished[i] : i \in DOMAIN finished }

Collect(c) ==
  /\ stage = "discussing" /\ c \in Asked \ Collected /\ pc[c] = "done"
  /\ finished' = Append(finished, c)
  /\ UNCHANGED <<vars, session, cards, stage, next, conversation, verdict>>

(* The pool is left when every future has been yielded.                    *)
Assemble ==
  /\ stage = "discussing" /\ Asked \subseteq Collected
  /\ stage' = "quoting" /\ next' = 1
  /\ UNCHANGED <<vars, session, cards, finished, conversation, verdict>>

(* _last_agent_message                                                     *)
Answered(c) == result[c].agents # <<>>
Quote(c) == [card |-> c, author |-> result[c].agents[Len(result[c].agents)]]

(* The conversation: every card whose task came back with an agent's
   message, quoted under the card's own name, in the order of the cards.   *)
QuoteNext ==
  /\ stage = "quoting" /\ next <= Len(cards)
  /\ conversation' = IF Answered(cards[next])
                     THEN Append(conversation, Quote(cards[next])) ELSE conversation
  /\ next' = next + 1
  /\ UNCHANGED <<vars, session, cards, stage, finished, verdict>>

QuotesEnd ==
  /\ stage = "quoting" /\ next > Len(cards)
  /\ stage' = "synthesizing"
  /\ UNCHANGED <<vars, session, cards, next, finished, conversation, verdict>>

(* synthesize: without a message there is nothing to send.                 *)
NothingToSay ==
  /\ stage = "synthesizing" /\ conversation = <<>>
  /\ stage' = "done" /\ verdict' = "nothing-to-synthesize"
  /\ UNCHANGED <<vars, session, cards, next, finished, conversation>>

Synthesize ==
  /\ stage = "synthesizing" /\ conversation # <<>>
  /\ Send(Synthesizer, Synthesizer)
  /\ UNCHANGED tableVars

Conclude ==
  /\ stage = "synthesizing" /\ pc[Synthesizer] = "done"
  /\ stage' = "done"
  /\ verdict' = IF Answered(Synthesizer) THEN "synthesized" ELSE "see-the-answers"
  /\ UNCHANGED <<vars, session, cards, next, finished, conversation>>

(* a2a-call                                                                *)
Call(c) == c \in session.callers /\ Send(c, c) /\ UNCHANGED tableVars

Step(c) == Transport(c) /\ UNCHANGED tableVars
Serve == Server /\ UNCHANGED tableVars

Table == \/ Pick \/ PickEnds \/ Fill \/ FillEnds
         \/ \E i \in DOMAIN cards : Submit(i)
         \/ \E c \in Asked : Collect(c)
         \/ Assemble \/ QuoteNext \/ QuotesEnd
         \/ NothingToSay \/ Synthesize \/ Conclude

Next == \/ Table
        \/ \E c \in Calls : Call(c) \/ Step(c)
        \/ Serve

(* The roundtable's threads run, and every wait of a transport ends: a
   socket times out (timeout_sec), a poll sleeps and returns, claude is
   killed after timeout_sec.  Nothing is assumed of servers or users.      *)
Spec == /\ TableInit /\ [][Next]_allVars
        /\ WF_allVars(Table)
        /\ \A c \in Calls : WF_allVars(Step(c))
-----------------------------------------------------------------------------
TableTypeOK ==
  /\ TypeOK
  /\ session \in Sessions /\ cards \in Seq(Cards)
  /\ stage \in {"picking", "filling", "discussing", "quoting", "synthesizing", "done"}
  /\ next \in Nat \ {0}
  /\ finished \in Seq(Cards)
  /\ conversation \in Seq([card : Cards, author : Calls])
  /\ verdict \in {"none", "nothing-to-synthesize", "synthesized", "see-the-answers"}

(* No participant sees or returns what another one said, although all of
   them are sent one task and the local transports write into the object
   they are given (roundtable.py:230).                                     *)
Independent ==
  \A c \in Asked : /\ sent[c] = <<>>
                   /\ \A i \in DOMAIN result[c].agents : result[c].agents[i] = c

(* Each answer is quoted under the name of the card that gave it, once, in
   the order of the cards and with none left out, in whatever order the
   threads finish (roundtable.py:224, 258-278).                            *)
Attributed ==
  stage \in {"synthesizing", "done"} =>
    /\ \A i \in DOMAIN conversation :
         /\ conversation[i].author = conversation[i].card
         /\ \E k \in DOMAIN cards : conversation[i].card = cards[k] /\ Answered(cards[k])
    /\ \A i, j \in DOMAIN conversation : \A k, l \in DOMAIN cards :
         i < j /\ conversation[i].card = cards[k] /\ conversation[j].card = cards[l] => k < l
    /\ \A k \in DOMAIN cards :
         Answered(cards[k]) => \E i \in DOMAIN conversation : conversation[i].card = cards[k]

(* What the table hears as a participant's words is the participant's.     *)
OwnWords == Independent /\ Attributed

(* The picked cards are distinct, within the maximum, and cover each needed
   skill that any card has unless the table is full
   (roundtable.py:159-182).                                                *)
TableCovers ==
  /\ \A k, l \in DOMAIN cards : cards[k] = cards[l] => k = l
  /\ Len(cards) <= session.most
  /\ stage # "picking" => \A i \in DOMAIN session.needed :
       \/ Full
       \/ \E c \in Asked : session.needed[i] \in Has[c]
       \/ \A c \in Cards : session.needed[i] \notin Has[c]

(* The right participants are heard, each in its own words.                *)
RightWordsHeard == OwnWords /\ TableCovers

(* The roundtable comes to an end although any answer may be lost.         *)
TableEnds == <>(stage = "done")

(* Every send_task returns, with a finished task (http.py:634-661).        *)
SendReturns ==
  \A c \in Calls : pc[c] # "idle" ~> pc[c] = "done" /\ result[c].status \in Terminal

(* Nobody who sends a task, and no table, waits forever.                   *)
ComesToAnEnd == TableEnds /\ SendReturns
=============================================================================
