---------------------------- MODULE Credentials ----------------------------
(***************************************************************************)
(* The bearer credentials of one host: pyfog/agent_credentials.py and the  *)
(* handler web.inventory_token that issues and revokes them.  It reads the *)
(* host row, awaits the form, and works on the row that it read: on the    *)
(* event loop another request may come in between.  A credential is a      *)
(* generation; the host row points to the newest one.  An installation may *)
(* start with a token in the host row only, from before credentials had    *)
(* rows: generation 0.                                                     *)
(***************************************************************************)
EXTENDS Integers

CONSTANTS Handler,      \* the requests to web.inventory_token at one time
          Generations,  \* bound on the credentials issued
          Lifetime,     \* token_seconds
          Grace,        \* token_rotation_grace_seconds
          MaxTime       \* bound on the clock

ASSUME CredentialsAssumption ==
  /\ Generations \in Nat /\ Lifetime \in Nat \ {0}
  /\ Grace \in Nat /\ MaxTime \in Nat

VARIABLES
  now,
  pointer,   \* hosts.token_hash: a generation, or None
  expires,   \* when the credential that pointer means runs out
  row,       \* row[g]: the agent_credentials row of g
  issued,    \* how many generations were issued
  seen,      \* seen[h]: the host row as the request h read it
  outdated   \* has a request worked on a row that was no longer that one?

cvars == <<now, pointer, expires, row, issued, seen, outdated>>

Generation == 0 .. Generations
None       == -1
Never      == MaxTime + Lifetime + Grace + 1
Time       == 0 .. Never
NoRow      == [exists |-> FALSE, at |-> 0, expires |-> 0, grace |-> Never, revoked |-> FALSE]
Unread     == [busy |-> FALSE, pointer |-> None, expires |-> 0]

CredentialsTypeOK ==
  /\ now \in 0 .. MaxTime
  /\ pointer \in Generation \cup {None} /\ expires \in Time
  /\ row \in [Generation -> [exists : BOOLEAN, at : Time, expires : Time,
                             grace : Time, revoked : BOOLEAN]]
  /\ issued \in 0 .. Generations
  /\ seen \in [Handler -> [busy : BOOLEAN, pointer : Generation \cup {None}, expires : Time]]
  /\ outdated \in BOOLEAN

(* A new host, or one with a token and no row.                             *)
CredentialsInit ==
  /\ now = 0 /\ issued = 0
  /\ row = [g \in Generation |-> NoRow]
  /\ seen = [h \in Handler |-> Unread] /\ outdated = FALSE
  /\ \/ pointer = None /\ expires = 0
     \/ pointer = 0 /\ expires = Lifetime
-----------------------------------------------------------------------------
(* credential_is_usable.                                                   *)
Usable(g) ==
  /\ row[g].exists /\ ~row[g].revoked
  /\ row[g].expires > now /\ row[g].grace > now

(* authorize_host_agent: by its row, or by the pointer without a row.      *)
Accepted(g) ==
  \/ Usable(g)
  \/ ~row[g].exists /\ pointer = g /\ expires > now

(* _import_legacy_credential, of the row as it was read.                   *)
Imported(old) ==
  IF old.pointer # None /\ ~row[old.pointer].exists
  THEN [row EXCEPT ![old.pointer] =
          [NoRow EXCEPT !.exists = TRUE, !.at = now, !.expires = old.expires]]
  ELSE row

Earlier(a, b) == IF a < b THEN a ELSE b

(* Slip: each rotation grants the older generations a new grace.           *)
GrantedAnew(r) ==
  IF r.exists /\ ~r.revoked /\ r.expires > now
  THEN [r EXCEPT !.grace = Earlier(r.expires, now + Grace)] ELSE r

(* A rotation may shorten the grace of an older generation, never extend.  *)
Granted(r) ==
  IF r.exists /\ ~r.revoked /\ r.expires > now
  THEN [r EXCEPT !.grace = Earlier(@, Earlier(r.expires, now + Grace))] ELSE r

(* get_host, and then the await of the form.                               *)
Read(h) ==
  /\ ~seen[h].busy
  /\ seen' = [seen EXCEPT ![h] = [busy |-> TRUE, pointer |-> pointer, expires |-> expires]]
  /\ UNCHANGED <<now, pointer, expires, row, issued, outdated>>

(* The form is there, and the rest of the handler runs at once.            *)
Resume(h) == seen[h].busy /\ seen' = [seen EXCEPT ![h] = Unread]
Work(h) ==
  /\ Resume(h)
  /\ outdated' = (outdated \/ seen[h].pointer # pointer \/ seen[h].expires # expires)

(* issue_credential: locking the host again does not load it again.        *)
Issue(h) ==
  /\ Work(h)
  /\ issued < Generations
  /\ issued' = issued + 1
  /\ row' = [g \in Generation |->
               IF g = issued + 1
               THEN [NoRow EXCEPT !.exists = TRUE, !.at = now, !.expires = now + Lifetime]
               ELSE Granted(Imported(seen[h])[g])]
  /\ pointer' = issued + 1 /\ expires' = now + Lifetime
  /\ UNCHANGED now

(* revoke_credentials: a pointer read as empty is not written.             *)
Revoke(h) ==
  /\ Work(h)
  /\ row' = [g \in Generation |-> [row[g] EXCEPT !.revoked = row[g].exists]]
  /\ IF seen[h].pointer = None THEN UNCHANGED <<pointer, expires>>
     ELSE pointer' = None /\ expires' = 0
  /\ UNCHANGED <<now, issued>>

(* A form without a valid csrf token or action, or that never comes.       *)
Refuse(h) == Resume(h) /\ UNCHANGED <<now, pointer, expires, row, issued, outdated>>

Tick ==
  /\ now < MaxTime
  /\ now' = now + 1
  /\ UNCHANGED <<pointer, expires, row, issued, seen, outdated>>

CredentialsNext == Tick \/ \E h \in Handler : Read(h) \/ Issue(h) \/ Revoke(h) \/ Refuse(h)

CredentialsSpec == CredentialsInit /\ [][CredentialsNext]_cvars
-----------------------------------------------------------------------------
(* The pointer of the host is accepted until it expires.  Not checked: a   *)
(* revocation that read an empty pointer keeps the one issued since, whose *)
(* row it revokes (docs/agent-credentials.md:21-22 says that both go).     *)
NewestAccepted == pointer # None /\ expires > now => Accepted(pointer)

(* Whatever was read before an await, an older token ends with the grace   *)
(* period of the first rotation since it got its row, however many follow. *)
(* (A token from before credentials had rows gets one at its first         *)
(* rotation, or, from the host as it was read, after its revocation.)  The *)
(* newest one lives until it expires or is revoked, as long as no request  *)
(* worked on a host that another one had changed since it was read.  A     *)
(* host is never left with no token or with many.                          *)
OverlapBounded ==
  /\ \A g, h \in Generation :
       g < h /\ row[h].exists /\ row[g].at <= row[h].at /\ Accepted(g) => now < row[h].at + Grace
  /\ ~outdated => NewestAccepted
=============================================================================
