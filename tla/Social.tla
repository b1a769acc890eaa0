------------------------------- MODULE Social -------------------------------
(***************************************************************************)
(* Conversations of the social club (runtime/social.py): profiles, lists   *)
(* in which users find each other, follows and blocks, the waiting queue   *)
(* of the anonymous chat, invitations, and the points a conversation       *)
(* costs.                                                                  *)
(*                                                                         *)
(* Every handler runs in one transaction of the one bot worker, and one    *)
(* that raises ValueError changes nothing: such a condition is a guard.    *)
(* A button of the club first takes its user out of queue and chat, except *)
(* the button that ends a chat and the one that reports it.  The other     *)
(* sections of the bot set the prompt of a user (users.state) and do not   *)
(* look at queue and chat.  Administrators pay nothing and need no         *)
(* complete profile.                                                       *)
(*                                                                         *)
(* Of a profile the interests matter (name, gender, age and province, once *)
(* given, are not emptied again), who may view it and whether it can be    *)
(* found.  The four lists in which users find each other have one price    *)
(* here.  Texts, photos, comments and visits are left out.                 *)
(***************************************************************************)
EXTENDS Integers, Sequences, FiniteSets, FiniteSetsExt

CONSTANTS
  Users, Admins, Interests,
  Start,      \* points a user begins with
  Prices,     \* prices an administrator may set
  Limit,      \* how many of those who wait a search looks at (100)
  MaxAsks,    \* bound: quotes for an invitation
  MaxEdits    \* bound: edits of profiles and prices, relations, bans, points spent

ASSUME SocialAssumption ==
  /\ Admins \subseteq Users /\ Start \in Nat /\ Prices \subseteq Nat /\ Prices # {}
  /\ Limit \in Nat /\ MaxAsks \in Nat /\ MaxEdits \in Nat

VARIABLES
  profile,   \* u -> [interests, visibility, discoverable]
  follows,   \* <<follower, followed>>
  blocks,    \* <<blocker, blocked>>
  found,     \* <<viewer, target>>: found in a list in the last half hour
  banned,    \* users.blocked
  hadBan,    \* history: who has been blocked at some time
  tariff,    \* route -> price
  points,    \* u -> balance of loyalty points
  queue,     \* social_chat_queue in the order of joining
  quotes,    \* social_chat_quotes that have not expired
  invites,   \* pending rows of social_chat_invites of the last day
  pairs,     \* the open rows of social_chat_pairs, each the set of its members
  prompt,    \* users.state
  asks, edits

vars == <<profile, follows, blocks, found, banned, hadBan, tariff, points, queue, quotes,
          invites, pairs, prompt, asks, edits>>
ban_vars == <<banned, hadBan>>
people_vars == <<profile, follows, blocks, found, ban_vars>>
chat_vars == <<queue, pairs, prompt, points>>
ask_vars == <<quotes, invites, asks>>

Modes == {"random", "filtered"}
Routes == Modes \cup {"found", "direct"}
Blank == <<"", 0>>
Waiting == <<"waiting", 0>>
Other == <<"other", 0>>  \* what another section left: a receipt or an amount it asks for, or nothing
\* A conversation has a number; when one is opened the prompts of both its
\* members are set, so its members name it well enough.
Chat(t) == <<"chat", t>>

Init ==
  /\ \E i \in Interests :
       profile = [u \in Users |-> [interests |-> {i}, visibility |-> "public", discoverable |-> TRUE]]
  /\ follows = {} /\ blocks = {} /\ found = {} /\ banned = {} /\ hadBan = {}
  /\ tariff = [r \in Routes |-> CHOOSE p \in Prices : \A q \in Prices : p <= q]
  /\ points = [u \in Users |-> Start]
  /\ queue = <<>> /\ quotes = {} /\ invites = {} /\ pairs = {}
  /\ prompt = [u \in Users |-> Blank]
  /\ asks = 0 /\ edits = 0

(***************************************************************************)
(* Who may do what.                                                        *)
(***************************************************************************)
Complete(u) == u \in Admins \/ profile[u].interests # {}
Friends(u, v) == <<u, v>> \in follows /\ <<v, u>> \in follows
CanView(u, v) ==
  \/ u = v \/ u \in Admins \/ profile[v].visibility = "public"
  \/ profile[v].visibility = "friends" /\ Friends(u, v)
Blocked(u, v) == <<u, v>> \in blocks \/ <<v, u>> \in blocks

\* A conversation begun from an old button or a link costs at least what one
\* begun from a list costs.
ChatCost(u, route) ==
  IF u \in Admins THEN 0
  ELSE IF route = "direct" /\ tariff["found"] > tariff["direct"] THEN tariff["found"]
  ELSE tariff[route]
RouteFor(u, v) == IF <<u, v>> \in found THEN "found" ELSE "direct"
Affordable(u, price) == u \in Admins \/ points[u] >= price
Charge(u, price) == IF u \in Admins THEN 0 ELSE price

(***************************************************************************)
(* Leaving.                                                                *)
(***************************************************************************)
ActiveChat(u) == {t \in pairs : u \in t}
Queued(u) == \E i \in DOMAIN queue : queue[i].user = u
Busy(u) == Queued(u) \/ ActiveChat(u) # {}

\* The rows at the positions K, which stay in their order.
Kept(K) ==
  LET at == CHOOSE f \in [1 .. Cardinality(K) -> K] : \A m, n \in DOMAIN f : m < n => f[m] < f[n]
  IN  [n \in 1 .. Cardinality(K) |-> queue[at[n]]]
Without(us) == Kept({i \in DOMAIN queue : queue[i].user \notin us})
Closed(us) == {t \in pairs : t \cap us = {}}

\* What the other users' prompts were stays as it was: the one left behind
\* keeps the prompt of a conversation that is over.
Leave(us) == queue' = Without(us) /\ pairs' = Closed(us)
Say(u, s) == prompt' = [prompt EXCEPT ![u] = s]
Pressed(u) ==
  /\ u \notin banned
  /\ IF Busy(u) THEN Leave({u}) /\ Say(u, Blank)
     ELSE UNCHANGED <<queue, pairs, prompt>>
  /\ UNCHANGED points
Changed == edits < MaxEdits /\ edits' = edits + 1

Left(u) ==
  /\ u \notin banned
  /\ Leave({u}) /\ Say(u, Blank)
  /\ UNCHANGED <<people_vars, tariff, points, ask_vars, edits>>

\* The main menu and the menu of the club, for a user who is in neither; for
\* one who is they do what the button "End", and /stop as a message, do.
Home(u) == ~Busy(u) /\ Left(u)
EndChat(u) == Busy(u) /\ Left(u)

\* Another section of the bot asks its own question, or withdraws it; of
\* interest while the user waits or chats.
OtherSection(u) ==
  /\ u \notin banned /\ Busy(u)
  /\ Say(u, Other)
  /\ UNCHANGED <<people_vars, tariff, points, queue, pairs, ask_vars, edits>>

(***************************************************************************)
(* Profiles and relations.                                                 *)
(***************************************************************************)
EditProfile(u) ==
  /\ Pressed(u) /\ Changed
  /\ \/ \E s \in SUBSET Interests : profile' = [profile EXCEPT ![u].interests = s]
     \/ \E w \in {"public", "friends", "hidden"} : profile' = [profile EXCEPT ![u].visibility = w]
     \/ profile' = [profile EXCEPT ![u].discoverable = ~@]
  /\ UNCHANGED <<follows, blocks, found, ban_vars, tariff, ask_vars>>

Follow(u, v) ==
  /\ u # v /\ CanView(u, v) /\ ~Blocked(u, v)
  /\ Pressed(u) /\ Changed
  /\ follows' = IF <<u, v>> \in follows THEN follows \ {<<u, v>>} ELSE follows \cup {<<u, v>>}
  /\ UNCHANGED <<profile, blocks, found, ban_vars, tariff, ask_vars>>

\* Mutant of Block: the chat goes on.
BlockOnly(u, v) ==
  /\ u # v /\ Changed
  /\ blocks' = blocks \cup {<<u, v>>}
  /\ UNCHANGED <<profile, follows, found, ban_vars, tariff, ask_vars, chat_vars>>

Block(u, v) ==
  /\ u # v
  /\ Pressed(u) /\ Changed
  /\ blocks' = blocks \cup {<<u, v>>}
  /\ follows' = follows \ {<<u, v>>, <<v, u>>}
  /\ UNCHANGED <<profile, found, ban_vars, tariff, ask_vars>>

\* The results of a search, the users near by (of those who sent their
\* location), those followed and the followers.
Searched(u, v) == profile[v].discoverable /\ CanView(u, v) /\ ~Blocked(u, v)
NearBy(u, v) ==
  /\ profile[v].visibility = "public" /\ profile[v].discoverable /\ v \notin banned
  /\ ~Blocked(u, v)
Following(u, v) == <<u, v>> \in follows /\ CanView(u, v) /\ ~Blocked(u, v)
FollowedBy(u, v) == <<v, u>> \in follows /\ CanView(u, v)

Find(u, v) ==
  /\ u # v /\ <<u, v>> \notin found
  /\ Searched(u, v) \/ NearBy(u, v) \/ Following(u, v) \/ FollowedBy(u, v)
  /\ Pressed(u) /\ Changed
  /\ found' = found \cup {<<u, v>>}
  /\ UNCHANGED <<profile, follows, blocks, ban_vars, tariff, ask_vars>>

(***************************************************************************)
(* The anonymous chat.                                                     *)
(***************************************************************************)
\* Of the users who wait, in their order, the first one u can be connected
\* with; those met before him who can no longer pay lose their place.
Waiters(u, mode) ==
  {i \in DOMAIN queue : /\ queue[i].user # u /\ queue[i].mode = mode
                        /\ profile[queue[i].user].discoverable}
Candidates(u, mode) ==
  {i \in Waiters(u, mode) :
     LET w == queue[i].user
     IN  /\ Cardinality({j \in Waiters(u, mode) : j < i}) < Limit
         /\ ~Blocked(u, w) /\ Complete(w) /\ ActiveChat(w) = {} /\ w \notin banned}

Suits(u, mode, r) ==
  /\ Affordable(r.user, r.price)
  /\ mode = "filtered" => profile[u].interests \cap profile[r.user].interests # {}
\* Mutant of Hits: only who has waited longest is looked at.
HitsFirst(u, mode) ==
  {i \in Candidates(u, mode) : Suits(u, mode, queue[i]) /\ \A j \in Candidates(u, mode) : i <= j}
Hits(u, mode) == {i \in Candidates(u, mode) : Suits(u, mode, queue[i])}
Broke(u, mode) ==
  {queue[i].user : i \in {k \in Candidates(u, mode) : /\ ~Affordable(queue[k].user, queue[k].price)
                                                      /\ \A h \in Hits(u, mode) : k < h}}

\* A conversation of u and v, of which u pays x and v pays y.  Those in us
\* leave the queue, those in left also their conversation.

\* Mutants of Open: the former conversation stays open; the one who waited
\* pays what the other pays.
OpenBeside(u, v, x, y, us, left) ==
  /\ queue' = Without(us)
  /\ pairs' = pairs \cup {{u, v}}
  /\ points' = [points EXCEPT ![u] = @ - Charge(u, x), ![v] = @ - Charge(v, y)]
OpenSamePrice(u, v, x, y, us, left) ==
  /\ queue' = Without(us)
  /\ pairs' = Closed(left) \cup {{u, v}}
  /\ points' = [points EXCEPT ![u] = @ - Charge(u, x), ![v] = @ - Charge(v, IF y = 0 THEN 0 ELSE x)]

Open(u, v, x, y, us, left) ==
  /\ queue' = Without(us)
  /\ pairs' = Closed(left) \cup {{u, v}}
  /\ points' = [points EXCEPT ![u] = @ - Charge(u, x), ![v] = @ - Charge(v, y)]

StartMatching(u, mode) ==
  LET own == ChatCost(u, mode)
      hits == Hits(u, mode)
      broke == Broke(u, mode)
      blanked == [w \in Users |-> IF w \in broke THEN Blank ELSE prompt[w]]
  IN  /\ u \notin banned /\ Complete(u) /\ Affordable(u, own)
      /\ IF hits = {}
         THEN /\ queue' = Append(Without({u} \cup broke), [user |-> u, mode |-> mode, price |-> own])
              /\ pairs' = Closed({u})
              /\ prompt' = [blanked EXCEPT ![u] = Waiting]
              /\ UNCHANGED points
         ELSE LET peer == queue[Min(hits)]
              IN  /\ Open(u, peer.user, own, peer.price, {u, peer.user} \cup broke, {u})
                  /\ prompt' = [w \in Users |-> IF w \in {u, peer.user} THEN Chat({u, peer.user})
                                                 ELSE blanked[w]]
      /\ UNCHANGED <<people_vars, tariff, ask_vars, edits>>

(***************************************************************************)
(* Invitations.                                                            *)
(***************************************************************************)
\* The offer with its price, good for a quarter of an hour.
FriendChat(u, v) ==
  /\ asks < MaxAsks
  /\ u # v /\ Complete(u) /\ CanView(u, v) /\ ~Blocked(u, v)
  /\ Pressed(u)
  /\ quotes' = quotes \cup {[by |-> u, to |-> v, price |-> ChatCost(u, RouteFor(u, v))]}
  /\ asks' = asks + 1
  /\ UNCHANGED <<people_vars, tariff, invites, edits>>

\* The offer is taken: a former request to the same user takes its price.
ChatConfirm(q) ==
  /\ q \in quotes
  /\ Complete(q.by) /\ CanView(q.by, q.to) /\ ~Blocked(q.by, q.to) /\ Affordable(q.by, q.price)
  /\ Pressed(q.by)
  /\ quotes' = quotes \ {q}
  /\ invites' = {i \in invites : i.by # q.by \/ i.to # q.to} \cup {q}
  /\ UNCHANGED <<people_vars, tariff, asks, edits>>

\* Whoever accepts has left his own chat with the button; the one who asked
\* must be in none, and pays.

\* Mutants of AcceptFriend: the one who asked stays in the queue; his prompt
\* stays what it was.
AcceptFriendQueued(i) ==
  /\ i \in invites /\ i.to \notin banned /\ Complete(i.to) /\ Affordable(i.by, i.price)
  /\ CanView(i.by, i.to) /\ ~Blocked(i.by, i.to) /\ ActiveChat(i.by) \subseteq ActiveChat(i.to)
  /\ invites' = invites \ {i}
  /\ Open(i.by, i.to, i.price, 0, {i.to}, {i.by, i.to})
  /\ prompt' = [prompt EXCEPT ![i.by] = Chat({i.by, i.to}), ![i.to] = Chat({i.by, i.to})]
  /\ UNCHANGED <<people_vars, tariff, quotes, asks, edits>>

AcceptFriend(i) ==
  LET u == i.by
      v == i.to
  IN  /\ i \in invites /\ v \notin banned
      /\ Complete(v) /\ CanView(u, v) /\ ~Blocked(u, v)
      /\ ActiveChat(u) \subseteq ActiveChat(v) /\ Affordable(u, i.price)
      /\ invites' = invites \ {i}
      /\ Open(u, v, i.price, 0, {u, v}, {u, v})
      /\ prompt' = [prompt EXCEPT ![u] = Chat({u, v}), ![v] = Chat({u, v})]
      /\ UNCHANGED <<people_vars, tariff, quotes, asks, edits>>

RejectFriend(i) ==
  /\ i \in invites
  /\ Pressed(i.to)
  /\ invites' = invites \ {i}
  /\ UNCHANGED <<people_vars, tariff, quotes, asks, edits>>

(***************************************************************************)
(* Time, administrators and other sections.                                *)
(***************************************************************************)
\* Half an hour after the list.  (A quote or an invitation that has expired is
\* one that nobody takes any more.)
Forget(f) ==
  /\ found' = found \ {f}
  /\ UNCHANGED <<profile, follows, blocks, ban_vars, chat_vars, tariff, ask_vars, edits>>

\* A report is decided against u; a user is blocked or unblocked in the menu,
\* which leaves queue and chat alone.
ReportBlock(u) ==
  /\ Changed
  /\ banned' = banned \cup {u} /\ hadBan' = hadBan \cup {u}
  /\ queue' = Without({u})
  /\ pairs' = Closed({u})
  /\ UNCHANGED <<profile, follows, blocks, found, tariff, points, prompt, ask_vars>>
SetBanned(u) ==
  /\ Changed
  /\ banned' = IF u \in banned THEN banned \ {u} ELSE banned \cup {u}
  /\ hadBan' = hadBan \cup {u}
  /\ UNCHANGED <<profile, follows, blocks, found, tariff, chat_vars, ask_vars>>

SetTariff(r, p) ==
  /\ Changed
  /\ tariff[r] # p /\ tariff' = [tariff EXCEPT ![r] = p]
  /\ UNCHANGED <<people_vars, chat_vars, ask_vars>>

\* Points spent on a reward, or taken back; never more than there are.
SpendPoints(u) ==
  /\ Changed
  /\ \E n \in 1 .. points[u] : points' = [points EXCEPT ![u] = @ - n]
  /\ UNCHANGED <<people_vars, tariff, queue, pairs, prompt, ask_vars>>

Next ==
  \/ \E u \in Users :
       \/ Home(u) \/ EndChat(u) \/ OtherSection(u) \/ EditProfile(u)
       \/ ReportBlock(u) \/ SetBanned(u) \/ SpendPoints(u)
       \/ \E v \in Users : Follow(u, v) \/ Block(u, v) \/ Find(u, v) \/ FriendChat(u, v)
       \/ \E m \in Modes : StartMatching(u, m)
  \/ \E q \in quotes : ChatConfirm(q)
  \/ \E i \in invites : AcceptFriend(i) \/ RejectFriend(i)
  \/ \E r \in Routes, p \in Prices : SetTariff(r, p)
  \/ \E f \in found : Forget(f)

Spec == Init /\ [][Next]_vars

(***************************************************************************)
(* Properties.                                                             *)
(***************************************************************************)
\* The variables have the shapes of the tables' rows.
TypeOK ==
  /\ profile \in [Users -> [interests : SUBSET Interests, visibility : {"public", "friends", "hidden"},
                            discoverable : BOOLEAN]]
  /\ follows \cup blocks \cup found \subseteq Users \X Users
  /\ banned \subseteq hadBan /\ hadBan \subseteq Users
  /\ tariff \in [Routes -> Prices] /\ points \in [Users -> Int]
  /\ \A i \in DOMAIN queue : queue[i] \in [user : Users, mode : Modes, price : Prices \cup {0}]
  /\ quotes \cup invites \subseteq [by : Users, to : Users, price : Prices \cup {0}]
  /\ \A t \in pairs : t \subseteq Users /\ Cardinality(t) = 2
  /\ \A u \in Users : prompt[u] \in {Blank, Waiting, Other} \cup {Chat(t) : t \in SUBSET Users}

\* Nobody is in two conversations, or in one and in the queue, or twice in the
\* queue: matching, invitations, leaving and reports keep the two tables apart.
OnePlaceEach ==
  \A u \in Users :
    Cardinality({i \in DOMAIN queue : queue[i].user = u})
      + Cardinality(ActiveChat(u)) <= 1

\* Two users of whom one has blocked the other are in no conversation.
NoChatAcrossBlock ==
  \A t \in pairs : \A u, v \in t : ~Blocked(u, v)

\* Users who could be connected do not both wait: whoever begins to wait has
\* been offered all who waited, and what makes them fit cannot change while
\* they wait.  (Blocking a user in the menu and unblocking him can.)
NoMatchMissed ==
  \A i, j \in DOMAIN queue :
    LET u == queue[j].user
        w == queue[i].user
    IN  i < j /\ queue[i].mode = queue[j].mode /\ {u, w} \cap hadBan = {} =>
          \/ Blocked(u, w) \/ ~profile[w].discoverable \/ ~Complete(w)
          \/ queue[i].mode = "filtered" /\ profile[u].interests \cap profile[w].interests = {}

\* What a user types reaches the conversation he is in, or a question put to
\* him since: a prompt of the club is never left over from an earlier stage.
PromptFits ==
  \A u \in Users :
    /\ \A t \in ActiveChat(u) : prompt[u] \in {Chat(t), Other}
    /\ Queued(u) => prompt[u] \in {Waiting, Other}

\* Whatever else points are spent on while somebody waits or an invitation is
\* open, a conversation never takes more than there is.
PointsNeverNegative == \A u \in Users : points[u] >= 0

\* The three tables a user can be in, his prompt and his points stay in step,
\* whichever of matching, invitations, reports and leaving comes in between.
ClubInv == TypeOK /\ OnePlaceEach /\ PromptFits /\ PointsNeverNegative

\* What the members of a new conversation pay.
Registered(t) ==
  LET took == [u \in Users |-> points[u] - points'[u]]
      invited == {i \in invites \ invites' : {i.by, i.to} = t}
  IN  /\ \A u \in Users : took[u] # 0 => u \in t \ Admins
      /\ IF invited # {}
         THEN \A i \in invited : took[i.to] = 0 /\ took[i.by] = Charge(i.by, i.price)
         ELSE \E k \in DOMAIN queue :
                queue[k].user \in t /\ took[queue[k].user] = Charge(queue[k].user, queue[k].price)

\* A conversation that opens takes points from nobody but its members, none
\* from an administrator, and none from whoever accepts an invitation; who
\* waited or asked pays the price registered when he did, also when the tariff
\* has changed since (docs/MASIHA_SOCIAL_FA.md:22).
PaidAsRegistered == [][\A t \in pairs' \ pairs : Registered(t)]_vars

\* The club keeps the promise of Matching.
Contract == INSTANCE Matching WITH together <- pairs
KeepsContract == Contract!Spec
=============================================================================
