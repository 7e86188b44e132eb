------------------------------- MODULE TokenKeys -------------------------------
(***************************************************************************)
(* Tokens and signatures over a rotation of their HMAC keys: internal/auth *)
(* without the Identity JWTs, internal/app/keyring.go, and the start of    *)
(* the collector and the writer in cmd.                                    *)
(*                                                                         *)
(* A family of keys has an active and, while it is being rotated, a        *)
(* previous secret in the environment of the deployment; a process reads   *)
(* them when it starts.  A family without secrets of its own takes the     *)
(* active one of another, and no previous one.  The operator rotates a     *)
(* family again only when every process runs with the last change for      *)
(* longer than what was signed before it is good for.                      *)
(***************************************************************************)
EXTENDS Integers

CONSTANTS
  Deployments,\* which families have secrets of their own, subsets of AllFamilies
  Clients,    \* installations
  Life,       \* [AllFamilies -> Nat]: how long a token or signature is good
  LastKey,    \* bound: keys are 0..LastKey
  MaxTime     \* bound: time stops here

\* "subject" is the secret that the subject keys of installations are derived with.
AllFamilies == {"installation", "product", "subject", "service", "writer"}
NoKey == -1

\* Whose active secret a family without one of its own takes.
Fallback == [product |-> "installation", subject |-> "installation", service |-> "writer"]

ASSUME TokenKeysAssumption ==
  /\ Deployments \subseteq SUBSET AllFamilies
  /\ \A own \in Deployments : \A f \in own \cap DOMAIN Fallback : Fallback[f] \in own
  /\ Life \in [AllFamilies -> Nat]
  /\ LastKey \in Nat /\ MaxTime \in Nat

VARIABLES
  now,
  env,      \* [Own -> [active, previous]], what the operator has written
  running,  \* [processes -> [Families -> the keyring it was started with]]
  since,    \* [Own -> when the last process took over a change]
  wallet,   \* [clients -> their two tokens, and the subject key the second one names]
  wire,     \* [families -> the signed request under way]
  verdict,  \* [families -> of the last signed request]
  subjects  \* history: [clients -> the subject keys they were given]

vars == <<now, env, running, since, wallet, wire, verdict, subjects>>

Processes == {"collector", "writer"}
SignedFamilies == {"service", "writer"}
Users == [installation |-> {"collector"}, product |-> {"collector"}, subject |-> {"collector"},
          service |-> Processes, writer |-> Processes]

NoToken == [key |-> NoKey, at |-> 0]
Ring(p, f) == running[p][f]

Own == DOMAIN env
Families == Own \cup {f \in DOMAIN Fallback : Fallback[f] \in Own}

\* What a process that starts now reads of a family.
HMACKeyring(f) ==
  IF f \in Own THEN env[f] ELSE [active |-> env[Fallback[f]].active, previous |-> NoKey]

-----------------------------------------------------------------------------
(* Verification                                                            *)

Known(ring, key) == key # NoKey /\ key \in {ring.active, ring.previous}

\* An expiry is exclusive, a maximal age inclusive.
Fresh(f, token) ==
  IF f = "product" THEN token.at + Life[f] > now ELSE token.at + Life[f] >= now

Accepts(p, f, token) == Known(Ring(p, f), token.key) /\ Fresh(f, token)

-----------------------------------------------------------------------------
(* The collector's token endpoints                                         *)

Issued(f) == [key |-> Ring("collector", f).active, at |-> now]

Issue(c) ==
  /\ "installation" \in Families /\ wallet[c].installation = NoToken
  /\ wallet' = [wallet EXCEPT ![c].installation = Issued("installation")]
  /\ UNCHANGED <<now, env, running, since, wire, verdict, subjects>>

\* Fault: a token that is renewed keeps its old signature.
RenewWithOldKey(c) ==
  /\ Accepts("collector", "installation", wallet[c].installation)
  /\ wallet' = [wallet EXCEPT ![c].installation.at = now]
  /\ UNCHANGED <<now, env, running, since, wire, verdict, subjects>>

Renew(c) ==
  /\ Accepts("collector", "installation", wallet[c].installation)
  /\ wallet' = [wallet EXCEPT ![c].installation = Issued("installation")]
  /\ UNCHANGED <<now, env, running, since, wire, verdict, subjects>>

\* Fault: the subject key is derived from the key that signs the token.
SubjectKeyOfRing(c) == <<c, Ring("collector", "product").active>>

SubjectKey(c) == <<c, Ring("collector", "subject").active>>

IssueAnonymous(c) ==
  /\ Accepts("collector", "installation", wallet[c].installation)
  /\ wallet' = [wallet EXCEPT ![c].product = Issued("product"), ![c].subject = {SubjectKey(c)}]
  /\ subjects' = [subjects EXCEPT ![c] = @ \cup {SubjectKey(c)}]
  /\ UNCHANGED <<now, env, running, since, wire, verdict>>

-----------------------------------------------------------------------------
(* The collector's requests to the writer                                  *)

Sign(f) ==
  /\ f \in Families /\ wire[f] = NoToken
  /\ wire' = [wire EXCEPT ![f] = Issued(f)]
  /\ UNCHANGED <<now, env, running, since, wallet, verdict, subjects>>

VerifySigned(f) ==
  /\ f \in Families /\ wire[f] # NoToken
  /\ verdict' = [verdict EXCEPT ![f] =
       IF Accepts("writer", f, wire[f]) THEN "accepted" ELSE "refused"]
  /\ wire' = [wire EXCEPT ![f] = NoToken]
  /\ UNCHANGED <<now, env, running, since, wallet, subjects>>

-----------------------------------------------------------------------------
(* The operator                                                            *)

Settled(f) ==
  /\ \A p \in Users[f] : Ring(p, f) = env[f]
  /\ now > since[f] + Life[f]

\* The V1 writer secret has no previous one.  Neither has the subject secret, and the
\* operator does not rotate it.
Rotate(f) ==
  /\ f # "subject" /\ Settled(f) /\ env[f].active < LastKey
  /\ env' = [env EXCEPT ![f] = [active |-> @.active + 1,
                                previous |-> IF f = "writer" THEN NoKey ELSE @.active]]
  /\ UNCHANGED <<now, running, since, wallet, wire, verdict, subjects>>

Retire(f) ==
  /\ Settled(f) /\ env[f].previous # NoKey
  /\ env' = [env EXCEPT ![f].previous = NoKey]
  /\ UNCHANGED <<now, running, since, wallet, wire, verdict, subjects>>

\* Fault: the previous key of the environment is not loaded.
RestartWithoutPrevious(p) ==
  LET changed == {f \in Own : p \in Users[f] /\ Ring(p, f) # env[f]}
  IN  /\ changed # {}
      /\ running' = [running EXCEPT ![p] =
                       [f \in Families |-> [HMACKeyring(f) EXCEPT !.previous = NoKey]]]
      /\ since' = [f \in Own |-> IF f \in changed THEN now ELSE since[f]]
      /\ UNCHANGED <<now, env, wallet, wire, verdict, subjects>>

Restart(p) ==
  LET changed == {f \in Own : p \in Users[f] /\ Ring(p, f) # env[f]}
  IN  /\ changed # {}
      /\ running' = [running EXCEPT ![p] = [f \in Families |-> HMACKeyring(f)]]
      /\ since' = [f \in Own |-> IF f \in changed THEN now ELSE since[f]]
      /\ UNCHANGED <<now, env, wallet, wire, verdict, subjects>>

Tick ==
  /\ now < MaxTime /\ now' = now + 1
  /\ UNCHANGED <<env, running, since, wallet, wire, verdict, subjects>>

-----------------------------------------------------------------------------
FirstRings(own) == [f \in own |-> [active |-> 0, previous |-> NoKey]]

Init ==
  /\ now = 0 /\ \E own \in Deployments : env = FirstRings(own)
  /\ running = [p \in Processes |-> [f \in Families |-> HMACKeyring(f)]]
  /\ since = [f \in Own |-> 0]
  /\ wallet = [c \in Clients |-> [installation |-> NoToken, product |-> NoToken, subject |-> {}]]
  /\ wire = [f \in SignedFamilies |-> NoToken]
  /\ verdict = [f \in SignedFamilies |-> "none"]
  /\ subjects = [c \in Clients |-> {}]

Next ==
  \/ \E c \in Clients : Issue(c) \/ Renew(c) \/ IssueAnonymous(c)
  \/ \E f \in SignedFamilies : Sign(f) \/ VerifySigned(f)
  \/ \E f \in Own : Rotate(f) \/ Retire(f)
  \/ \E p \in Processes : Restart(p)
  \/ Tick

Spec == Init /\ [][Next]_vars

\* A deployment restarts both processes in the end, and requests go on.
Fairness ==
  /\ \A p \in Processes : WF_vars(Restart(p))
  /\ \A f \in SignedFamilies : WF_vars(Sign(f)) /\ WF_vars(VerifySigned(f))

FairSpec == Spec /\ Fairness

-----------------------------------------------------------------------------
(* Properties                                                              *)

\* The variables have their types.
TypeOK ==
  /\ now \in 0..MaxTime
  /\ \A f \in Own : since[f] \in 0..now
  /\ \A f \in Families : \A ring \in {HMACKeyring(f)} \cup {Ring(p, f) : p \in Processes} :
       ring.active \in 0..LastKey /\ ring.previous \in NoKey..(ring.active - 1)
  /\ \A c \in Clients, f \in {"installation", "product"} :
       wallet[c][f].key \in NoKey..LastKey /\ wallet[c][f].at \in 0..now

\* Through a rotation, at every moment between two restarts, a token that is not
\* too old is accepted, and a client that renews keeps its installation
\* (installation.go:102, product.go:84).  Only a product token signed with the
\* installation secret is lost when that secret is rotated, since the fallback has no
\* previous key (keyring.go:13-26, cmd/collector/main.go:107).
TokenLives ==
  \A c \in Clients, f \in {"installation", "product"} :
    wallet[c][f] # NoToken /\ Fresh(f, wallet[c][f]) =>
      \/ Accepts("collector", f, wallet[c][f])
      \/ f \notin Own /\ wallet[c][f].key < Ring("collector", f).active

\* Where the subject secret is configured, an installation has one subject key for good:
\* what it sent stays within the scope of its later privacy request.  Where it is the
\* installation secret, a rotation gives the installation another subject; the token that
\* names the former one is refused from then on, unless product tokens have keys of their
\* own (product.go:68, cmd/collector/main.go:107, 118-121).
SubjectIsStable ==
  \A c \in Clients :
    /\ "subject" \in Own => \A x, y \in subjects[c] : x = y
    /\ ("product" \in Own => "subject" \in Own) /\ Accepts("collector", "product", wallet[c].product) =>
         wallet[c].subject = {SubjectKey(c)}

\* The state of the deployment at all times: keys in use follow each other, and a
\* product token in use names the subject the installation has now.
Inv == TypeOK /\ SubjectIsStable

\* The writer refuses a fresh signature of the collector's only while it runs with
\* older keys than the collector or, for V1 and where the service keys fall back to the V1
\* secret, with other ones: a request under way when the writer restarts is not lost to
\* the rotation (service.go:163, keyring.go:16-18).
SignedIsAccepted ==
  [][\A f \in SignedFamilies :
       wire[f] # NoToken /\ wire'[f] = NoToken /\ Fresh(f, wire[f]) /\ verdict'[f] = "refused" =>
         IF f = "writer" \/ f \notin Own THEN wire[f].key # Ring("writer", f).active
         ELSE wire[f].key > Ring("writer", f).active]_vars

\* Whatever the order of the restarts, requests get through again in the end.
RequestsGetThrough ==
  \A f \in SignedFamilies : f \in Families => []<>(verdict[f] = "accepted")

\* A rotation of the signatures' keys costs requests only between two restarts, and
\* never for good.
SignaturesSurvive == SignedIsAccepted /\ RequestsGetThrough
=============================================================================
