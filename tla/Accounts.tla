------------------------------ MODULE Accounts ------------------------------
(* Accounts of OpenVPN and OpenConnect that follow the clients of the panel  *)
(* (runtime/unified.py, manager.py, routeros6.py).  Every fifteen seconds a  *)
(* worker disables what has expired, credits the traffic of the sessions and *)
(* gives each client that may connect an enabled user of each protocol.  The *)
(* servers call a hook when a session begins or ends.  Traffic is credited   *)
(* to the panel from cumulative samples, which may come late or twice.       *)
(* IPsec, which the installation leaves switched off, is left out.           *)
EXTENDS Integers, FiniteSetsExt

CONSTANTS
  Clients,      \* ids of the panel's clients; the panel uses an id again
  Quota,        \* bytes a client may use
  Sessions,     \* connections
  MaxBytes,     \* bound: bytes of a session
  MaxTime,      \* bound: clock
  MaxActs,      \* bound: changes in the panel
  MaxFaults     \* bound: commands that fail, kills, hooks that are lost

Protocols == {"openvpn", "openconnect"}
Ways == Protocols \cup {"routeros6"}
Generations == 1 .. MaxActs   \* creation times: which change made the client
Names == Clients \X Generations   \* an account is made once for each
Client(n) == n[1]

VARIABLES
  clock,
  native,   \* the panel's rows: [gen, on, used, until], gen 0 without one
  base,     \* sessions' bytes a renewal took off `used`
  account,  \* masiha_accounts: [gen, ready]
  user,     \* manager's users: [state, until], by name and protocol
  usable,   \* whether the server accepts the certificate or password
  session,  \* [name, way, live, bytes, ledger]; ledger: masiha_sessions
  flying,   \* hooks of ended sessions that run: <<session, bytes>>
  worker,   \* [at, snap, want, left, todo]
  acts, faults

vars == <<clock, native, base, account, user, usable, session, flying, worker, acts, faults>>
lines == <<session, flying>>
panel == <<clock, native, base, acts>>

NoClient == [gen |-> 0, on |-> FALSE, used |-> 0, until |-> 0]
NoUser == [state |-> "none", until |-> 0]
Unused == [name |-> <<0, 0>>, way |-> "none", live |-> FALSE, bytes |-> 0, ledger |-> 0]
NoSnap == [c \in Clients |-> NoClient]
Resting == [at |-> "rest", snap |-> NoSnap, want |-> FALSE, left |-> {}, todo |-> {}]

Init ==
  /\ clock = 1 /\ native = NoSnap /\ base = [c \in Clients |-> 0]
  /\ account = [c \in Clients |-> [gen |-> 0, ready |-> FALSE]]
  /\ user = [n \in Names |-> [p \in Protocols |-> NoUser]]
  /\ usable = [n \in Names |-> [p \in Protocols |-> FALSE]]
  /\ session = [s \in Sessions |-> Unused] /\ flying = {}
  /\ worker = Resting /\ acts = 0 /\ faults = 0

Fault == faults < MaxFaults /\ faults' = faults + 1
NameOf(c) == <<c, account[c].gen>>

\* "until" 0 is without end; the panel's switch, the end and the quota decide.
Permitted(r) ==
  /\ r.gen # 0 /\ r.on
  /\ r.until = 0 \/ r.until > clock
  /\ r.used < Quota
\* The client a user name was made for, if it still exists.
\* Mutant of Row: the id belongs to whoever has it now.
RowAnyGeneration(n) == IF account[Client(n)].gen # 0 THEN native[Client(n)] ELSE NoClient
Row(n) == IF account[Client(n)].gen = n[2] /\ native[Client(n)].gen = n[2]
          THEN native[Client(n)] ELSE NoClient

-----------------------------------------------------------------------------
(* The panel and time                                                        *)

Act == acts < MaxActs /\ acts' = acts + 1
Others == <<account, user, usable, session, flying, worker, faults>>

AddClient(c) ==
  /\ native[c].gen = 0 /\ Act
  /\ \E t \in {0, clock + 1} :
       native' = [native EXCEPT ![c] = [gen |-> acts', on |-> TRUE, used |-> 0, until |-> t]]
  /\ UNCHANGED <<clock, base, Others>>

DeleteClient(c) ==
  /\ native[c].gen # 0 /\ Act
  /\ native' = [native EXCEPT ![c] = NoClient] /\ base' = [base EXCEPT ![c] = 0]
  /\ UNCHANGED <<clock, Others>>

Switch(c) ==
  /\ native[c].gen # 0 /\ Act
  /\ native' = [native EXCEPT ![c].on = ~@]
  /\ UNCHANGED <<clock, base, Others>>

\* A renewal gives the quota anew and moves the end.
Renew(c) ==
  /\ native[c].gen # 0 /\ Act
  /\ native' = [native EXCEPT ![c].used = 0, ![c].until = IF @ = 0 THEN 0 ELSE clock + 1]
  /\ base' = [base EXCEPT ![c] = @ + native[c].used]
  /\ UNCHANGED <<clock, Others>>

Tick == clock < MaxTime /\ clock' = clock + 1 /\ UNCHANGED <<native, base, acts, Others>>

-----------------------------------------------------------------------------
(* Sessions and their traffic                                                *)

Identity(n) == account[Client(n)].ready /\ Permitted(Row(n))

\* The server checks the credentials, then its hook asks whether the client of
\* this account may connect.  RouterOS 6 has the account's own password.
Connect(s) ==
  /\ session[s] = Unused
  /\ \E n \in Names, w \in Ways :
       /\ Permitted(Row(n)) /\ IF w = "routeros6" THEN Identity(n) ELSE usable[n][w]
       /\ session' = [session EXCEPT ![s] =
            [name |-> n, way |-> w, live |-> TRUE, bytes |-> 0, ledger |-> 0]]
  /\ UNCHANGED <<panel, account, user, usable, flying, worker, faults>>

Transfer(s) ==
  /\ session[s].live /\ session[s].bytes < MaxBytes
  /\ session' = [session EXCEPT ![s].bytes = @ + 1]
  /\ UNCHANGED <<panel, account, user, usable, flying, worker, faults>>

\* A session ends, and the hook carries its last counters.
Closed(f, ss) == [s \in Sessions |-> IF s \in ss THEN [f[s] EXCEPT !.live = FALSE] ELSE f[s]]
Finals(ss) == {<<s, session[s].bytes>> : s \in ss}
End(ss) == session' = Closed(session, ss) /\ flying' = flying \cup Finals(ss)

Disconnect(s) ==
  /\ session[s].live /\ End({s})
  /\ UNCHANGED <<panel, account, user, usable, worker, faults>>

\* A sample is credited with what it adds to the session's last known count,
\* and only to the client the session belongs to.
Grown(s, v) == IF v > session[s].ledger THEN v ELSE session[s].ledger
Credited(x) == IF Row(session[x[1]].name) = NoClient THEN session
               ELSE [session EXCEPT ![x[1]].ledger = Grown(x[1], x[2])]
Credit(x) ==
  LET n == session[x[1]].name
  IN native' = IF Row(n) = NoClient THEN native
               ELSE [native EXCEPT ![Client(n)].used = @ + Grown(x[1], x[2]) - session[x[1]].ledger]

Land(x) ==
  /\ x \in flying /\ Credit(x) /\ session' = Credited(x) /\ flying' = flying \ {x}
  /\ UNCHANGED <<clock, base, account, user, usable, worker, acts, faults>>

LoseHook(x) ==
  /\ x \in flying /\ Fault /\ flying' = flying \ {x}
  /\ UNCHANGED <<panel, account, user, usable, session, worker>>

-----------------------------------------------------------------------------
(* The manager of users                                                      *)

Of(n, p) == {s \in Sessions : session[s].live /\ session[s].name = n /\ session[s].way = p}

\* Users whose end has come.  Such a user is disabled in three steps: the
\* server is told, the row is changed, and its sessions are cut.
Ended == {x \in Names \X Protocols :
            /\ user[x[1]][x[2]].state = "on"
            /\ user[x[1]][x[2]].until # 0 /\ user[x[1]][x[2]].until <= clock}
Refused(xs) == [n \in Names |-> [p \in Protocols |-> usable[n][p] /\ <<n, p>> \notin xs]]
Off(xs) == [n \in Names |-> [p \in Protocols |->
  IF <<n, p>> \in xs THEN [user[n][p] EXCEPT !.state = "off"] ELSE user[n][p]]]
Cut(xs) == UNION {Of(x[1], x[2]) : x \in xs}

-----------------------------------------------------------------------------
(* The worker's pass                                                         *)

Abort == worker' = Resting

Expire ==
  /\ worker.at = "rest"
  /\ usable' = Refused(Ended) /\ user' = Off(Ended) /\ End(Cut(Ended))
  /\ worker' = [Resting EXCEPT !.at = "collect", !.left = {s \in Sessions : session'[s].live}]
  /\ UNCHANGED <<panel, account, faults>>

\* The counters of a live session are read, and credited a moment later.
Sample(s) ==
  /\ worker.at = "collect" /\ s \in worker.left /\ worker.todo = {}
  /\ worker' = [worker EXCEPT !.left = @ \ {s}, !.todo = IF session[s].live THEN Finals({s}) ELSE {}]
  /\ UNCHANGED <<panel, account, user, usable, lines, faults>>

\* The listener for RouterOS 6 has no user to disable: its sessions are cut
\* here when the client may no longer connect.
CreditSample(x) ==
  LET s == x[1]
      n == session[s].name
      stays == Identity(n) /\ Permitted(native'[Client(n)])
      cut == IF session[s].way = "routeros6" /\ ~stays THEN Of(n, "routeros6") ELSE {}
  IN /\ worker.at = "collect" /\ x \in worker.todo
     /\ Credit(x) /\ session' = Closed(Credited(x), cut) /\ flying' = flying \cup Finals(cut)
     /\ worker' = [worker EXCEPT !.todo = {}]
     /\ UNCHANGED <<clock, base, account, user, usable, acts, faults>>

ReadRows ==
  /\ worker.at = "collect" /\ worker.left = {} /\ worker.todo = {}
  /\ worker' = [worker EXCEPT !.at = "clients", !.snap = native,
                              !.left = {c \in Clients : native[c].gen # 0}]
  /\ UNCHANGED <<panel, account, user, usable, lines, faults>>

\* Accounts of clients that are gone, or whose id belongs to another one now.
\* Mutant of Stale: an id that came again is not compared.
GoneOnly == {c \in Clients : account[c].gen # 0 /\ worker.snap[c].gen = 0}
Stale == {c \in Clients : account[c].gen # 0 /\ worker.snap[c].gen # account[c].gen}

Sweep(c, p) ==
  LET xs == Ended \cup {<<NameOf(c), p>>}
  IN /\ worker.at = "clients" /\ c \in Stale /\ user[NameOf(c)][p] # NoUser
     /\ p = "openconnect" => user[NameOf(c)]["openvpn"] = NoUser
     /\ usable' = Refused(xs) /\ End(Cut(xs))
     /\ user' = [Off(Ended) EXCEPT ![NameOf(c)][p] = NoUser]
     /\ UNCHANGED <<panel, account, worker, faults>>

Forget(c) ==
  /\ worker.at = "clients" /\ c \in Stale /\ \A p \in Protocols : user[NameOf(c)][p] = NoUser
  /\ account' = [account EXCEPT ![c] = [gen |-> 0, ready |-> FALSE]]
  /\ UNCHANGED <<panel, user, usable, lines, worker, faults>>

\* Clients are taken in the order of their ids.
Current == Min(worker.left)
Take ==
  /\ worker.at = "clients" /\ Stale = {} /\ worker.left # {}
  /\ account' = IF account[Current].gen # 0 THEN account
                ELSE [account EXCEPT ![Current].gen = worker.snap[Current].gen]
  /\ worker' = [worker EXCEPT !.at = "client", !.todo = Protocols,
                              !.want = Permitted(worker.snap[Current])]
  /\ UNCHANGED <<panel, user, usable, lines, faults>>

Wish == [state |-> IF worker.want THEN "on" ELSE "off", until |-> worker.snap[Current].until]
\* OpenVPN comes first.
Busy(p) == worker.at = "client" /\ p \in worker.todo /\ (p = "openconnect" => worker.todo = {p})
InOrder(p) == user[NameOf(Current)][p] = Wish
\* The manager refuses to enable a user whose end has come in the meantime.
Late == worker.want /\ Wish.until # 0 /\ Wish.until <= clock
Unready == account' = [account EXCEPT ![Current].ready = FALSE]
\* A certificate is issued only when the row was not enabled.
Enabled(n, p) == worker.want /\ (p = "openvpn" /\ Off(Ended)[n][p].state = "on" => usable[n][p])

\* One protocol of a client; the manager first disables what has expired.
Handle(p) ==
  LET n == NameOf(Current)
      xs == Ended \cup (IF worker.want THEN {} ELSE {<<n, p>>})
  IN /\ Busy(p) /\ ~InOrder(p) /\ ~Late
     /\ user' = [Off(Ended) EXCEPT ![n][p] = Wish]
     /\ usable' = [Refused(Ended) EXCEPT ![n][p] = Enabled(n, p)]
     /\ End(Cut(xs))
     /\ worker' = [worker EXCEPT !.todo = @ \ {p}]
     /\ UNCHANGED <<panel, account, faults>>

Keep(p) ==
  /\ Busy(p) /\ InOrder(p)
  /\ worker' = [worker EXCEPT !.todo = @ \ {p}]
  /\ UNCHANGED <<panel, account, user, usable, lines, faults>>

\* The error of one client ends the pass for those after it as well.
Refuse(p) ==
  /\ Busy(p) /\ ~InOrder(p) /\ Late
  /\ user' = Off(Ended) /\ usable' = Refused(Ended) /\ End(Cut(Ended))
  /\ Unready /\ Abort
  /\ UNCHANGED <<panel, faults>>

ClientDone ==
  /\ worker.at = "client" /\ worker.todo = {}
  /\ account' = [account EXCEPT ![Current].ready = TRUE]
  /\ worker' = IF worker.left = {Current} THEN Resting
                ELSE [worker EXCEPT !.at = "clients", !.left = @ \ {Current}]
  /\ UNCHANGED <<panel, user, usable, lines, faults>>

NoClients ==
  /\ worker.at = "clients" /\ Stale = {} /\ worker.left = {} /\ Abort
  /\ UNCHANGED <<panel, account, user, usable, lines, faults>>

-----------------------------------------------------------------------------
(* Failures                                                                  *)

\* A command fails or the process dies in the middle of a change.  To disable
\* a user of OpenVPN the row is written before the certificate is revoked, one
\* of OpenConnect the other way; the sessions are cut last.
Break(p) ==
  LET n == NameOf(Current)
      told == [usable EXCEPT ![n][p] = worker.want]
      written == [user EXCEPT ![n][p] = Wish]
  IN /\ Busy(p) /\ ~InOrder(p) /\ ~Late /\ Ended = {} /\ Fault
     /\ \/ UNCHANGED <<usable, user>>
        \/ p = "openconnect" /\ usable' = told /\ UNCHANGED user
        \/ ~worker.want /\ p = "openvpn" /\ user' = written /\ UNCHANGED usable
        \/ ~worker.want /\ user' = written /\ usable' = told
     /\ Unready \/ UNCHANGED account
     /\ Abort
     /\ UNCHANGED <<panel, lines>>

\* An expired user's server is told, and the row is not written.
BreakExpire ==
  /\ worker.at = "rest" /\ Ended # {} /\ Fault
  /\ \E x \in Ended : usable' = Refused({x})
  /\ UNCHANGED <<panel, account, user, lines, worker>>

\* A list of the servers cannot be read, or the worker is stopped.
Fail ==
  /\ worker.at # "rest" /\ Fault /\ Abort
  /\ UNCHANGED <<panel, account, user, usable, lines>>

-----------------------------------------------------------------------------

Pass ==
  \/ Expire \/ ReadRows \/ Take \/ ClientDone \/ NoClients
  \/ \E c \in Clients : Forget(c) \/ \E p \in Protocols : Sweep(c, p)
  \/ \E p \in Protocols : Handle(p) \/ Keep(p) \/ Refuse(p)
  \/ \E s \in Sessions : Sample(s)
  \/ \E x \in worker.todo : CreditSample(x)

Next ==
  \/ Pass \/ Fail \/ Tick \/ BreakExpire
  \/ \E p \in Protocols : Break(p)
  \/ \E c \in Clients : AddClient(c) \/ DeleteClient(c) \/ Switch(c) \/ Renew(c)
  \/ \E s \in Sessions : Connect(s) \/ Transfer(s) \/ Disconnect(s)
  \/ \E x \in flying : Land(x) \/ LoseHook(x)

Samples == Sessions \X (0 .. MaxBytes)
\* The worker runs for ever; a hook that runs comes to its end.
Fairness == WF_vars(Pass) /\ WF_vars(\E x \in flying : Land(x))
Spec == Init /\ [][Next]_vars /\ Fairness

-----------------------------------------------------------------------------
(* Properties                                                                *)

\* The types of the variables.
TypeOK ==
  /\ clock \in 1 .. MaxTime /\ acts \in 0 .. MaxActs /\ faults \in 0 .. MaxFaults
  /\ \A c \in Clients : /\ native[c].gen \in 0 .. MaxActs /\ native[c].used >= 0
                        /\ account[c].gen \in 0 .. MaxActs
  /\ \A n \in Names, p \in Protocols : user[n][p].state \in {"none", "on", "off"}
  /\ usable \in [Names -> [Protocols -> BOOLEAN]]
  /\ flying \subseteq Samples
  /\ worker.at \in {"rest", "collect", "clients", "client"}
  /\ worker.at = "collect" => worker.todo \subseteq Samples

Named(n) == {s \in Sessions : session[s].name = n}

\* The panel shows each client exactly the traffic its own sessions are known
\* to have carried: late, repeated and overtaken samples are counted once, and
\* those of a former client with the same id not at all.
UsageCountedOnce == \A c \in Clients : native[c].gen # 0 =>
  native[c].used + base[c] =
    SumFunctionOnSet([s \in Sessions |-> session[s].ledger], Named(<<c, native[c].gen>>))

\* When a session has ended and its hook has run, all of its traffic has been
\* counted, whatever older sample the worker credits afterwards.
AllCounted == \A s \in Sessions :
  (/\ session[s] # Unused /\ ~session[s].live /\ faults = 0
   /\ \A x \in flying : x[1] # s
   /\ Row(session[s].name) # NoClient)
  => session[s].ledger = session[s].bytes

\* A client that may connect has its account and a credential of each protocol.
Served(c) == /\ account[c] = [gen |-> native[c].gen, ready |-> TRUE]
             /\ \A p \in Protocols : user[NameOf(c)][p].state = "on" /\ usable[NameOf(c)][p]
InStep ==
  /\ \A c \in Clients : Permitted(native[c]) => Served(c)
  /\ \A s \in Sessions : session[s].live => Permitted(Row(session[s].name))
  /\ \A n \in Names, p \in Protocols : usable[n][p] => Permitted(Row(n))

\* Unless a command fails or a hook is lost, the servers come to agree with
\* the panel and stay so: clients that may connect have both protocols, the
\* others have neither a credential nor a session.
Converges == <>[]InStep \/ <>(faults # 0)
=============================================================================
