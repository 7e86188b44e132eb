--------------------------- MODULE TokenKeys_proofs ---------------------------
(***************************************************************************)
(* Proofs about TokenKeys for any number of clients, rotations and         *)
(* restarts, and any lifetimes.  No process is more than one change behind *)
(* the environment, and what was signed two changes ago is dead: IInv is   *)
(* inductive, and a token that is alive has a key its verifier knows.      *)
(***************************************************************************)
EXTENDS TokenKeys, TLAPS

Rings == {r \in [active : 0..LastKey, previous : NoKey..LastKey] : r.previous < r.active}
Token == [key : NoKey..LastKey, at : Nat]
TokenFamilies == {"installation", "product"}
Verdicts == {"none", "accepted", "refused"}

\* The families whose keys follow each other with a previous one.
Chained == Own \ {"writer"}
SubjectKeys == Clients \X (NoKey..LastKey)

OwnKeys ==
  /\ Own \subseteq AllFamilies
  /\ \A f \in Own \cap DOMAIN Fallback : Fallback[f] \in Own

Typed ==
  /\ now \in 0..MaxTime
  /\ OwnKeys
  /\ env \in [Own -> Rings]
  /\ running \in [Processes -> [Families -> Rings]]
  /\ since \in [Own -> Nat] /\ (\A f \in Own : since[f] <= now)
  /\ wallet \in [Clients -> [installation : Token, product : Token, subject : SUBSET SubjectKeys]]
  /\ wire \in [SignedFamilies -> Token]
  /\ verdict \in [SignedFamilies -> Verdicts]
  /\ subjects \in [Clients -> SUBSET SubjectKeys]

\* A process that uses a key is at most one change behind.
OneBehind ==
  \A f \in Own : \A p \in Users[f] :
    \/ env[f] = Ring(p, f)
    \/ /\ env[f].active = Ring(p, f).active + 1
       /\ f # "writer" => env[f].previous = Ring(p, f).active
    \/ env[f].active = Ring(p, f).active /\ env[f].previous = NoKey

\* The previous key is the one before the active key.
KeysFollow ==
  \A f \in Chained : env[f].previous \in {NoKey, env[f].active - 1}

\* A process that fell back to other keys has no newer and no older ones than those.
FallenBack ==
  \A f \in Families \ Own : \A p \in Processes :
    Ring(p, f) = [active |-> Ring(p, Fallback[f]).active, previous |-> NoKey]

\* A subject secret of its own stays the first.
SubjectSecret ==
  "subject" \in Own =>
    env["subject"].active = 0 /\ \A p \in Processes : Ring(p, "subject").active = 0

Dead(f, t) == t.at + Life[f] < now

\* A token of the collector's is signed with a key it has had; before the last
\* restart if it has a newer one; and dead if the environment is about to forget it.
\* The latter two where the keys are the family's own.
Sound(f, t) ==
  t # NoToken =>
    LET mine == Ring("collector", f)
    IN  /\ t.key \in 0..mine.active /\ t.at <= now
        /\ f \in Own =>
             /\ t.key < mine.active => t.at <= since[f]
             /\ t.key < env[f].active - 1 => Dead(f, t)
             /\ env[f].previous = NoKey /\ t.key < env[f].active => Dead(f, t)

WalletSound ==
  \A c \in Clients, f \in TokenFamilies :
    IF f \in Families THEN Sound(f, wallet[c][f]) ELSE wallet[c][f] = NoToken

WireSound ==
  /\ "service" \in Families => Sound("service", wire["service"])
  /\ \A f \in SignedFamilies : wire[f] # NoToken => wire[f].key >= 0

\* A product token names the subject that was the installation's when it was signed.
NamesItsSubject(c) ==
  LET t == wallet[c].product
  IN  t # NoToken =>
        /\ "subject" \in Own => wallet[c].subject = {<<c, 0>>}
        /\ "subject" \notin Own /\ "product" \notin Own => wallet[c].subject = {<<c, t.key>>}

OneSubject ==
  \A c \in Clients :
    /\ "subject" \in Own => subjects[c] \subseteq {<<c, 0>>}
    /\ NamesItsSubject(c)

Following == OneBehind /\ KeysFollow /\ FallenBack /\ SubjectSecret

IInv == Typed /\ Following /\ WalletSound /\ WireSound /\ OneSubject

-----------------------------------------------------------------------------
(* Steps in general                                                        *)

LEMMA FamiliesOf ==
  ASSUME Typed, NEW f \in Families
  PROVE  /\ f \in AllFamilies /\ Users[f] \subseteq Processes /\ Life[f] \in Nat
         /\ f # "writer" => "collector" \in Users[f]
         /\ \A p \in Processes : Ring(p, f) \in Rings
         /\ f \notin Own => f \in DOMAIN Fallback /\ Fallback[f] \in Own
<1>1. f \in AllFamilies /\ (f \notin Own => f \in DOMAIN Fallback /\ Fallback[f] \in Own)
  BY DEF Typed, OwnKeys, Families, Fallback, AllFamilies
<1>2. Users[f] \subseteq Processes /\ (f # "writer" => "collector" \in Users[f])
  BY <1>1 DEF AllFamilies, Users, Processes
<1>3. \A p \in Processes : Ring(p, f) \in Rings
  BY DEF Typed, Ring
<1> QED BY <1>1, <1>2, <1>3, TokenKeysAssumption

LEMMA OwnFamiliesOf ==
  ASSUME Typed, NEW f \in Own
  PROVE  f \in Families /\ env[f] \in Rings /\ since[f] \in Nat /\ since[f] <= now
BY DEF Typed, Families

LEMMA RingFields ==
  ASSUME NEW r \in Rings
  PROVE  /\ r.active \in Nat /\ r.active \in 0..LastKey
         /\ r.previous \in Int /\ r.previous < r.active
         /\ r = [active |-> r.active, previous |-> r.previous]
BY TokenKeysAssumption DEF Rings, NoKey

LEMMA TokenFields ==
  ASSUME NEW t \in Token
  PROVE  t.key \in Int /\ t.at \in Nat
BY TokenKeysAssumption DEF Token, NoKey

\* What is said of the deployment survives the steps of clients and requests.
Deployment == <<now, env, running, since>>

LEMMA DeploymentStays ==
  ASSUME Following, UNCHANGED Deployment
  PROVE  /\ Own' = Own /\ Families' = Families /\ Following'
         /\ \A f, t : Sound(f, t)' <=> Sound(f, t)
<1>1. Own' = Own /\ Families' = Families /\ \A p, f : Ring(p, f)' = Ring(p, f)
  BY DEF Deployment, Own, Families, Ring
<1>2. OneBehind' /\ KeysFollow' /\ FallenBack' /\ SubjectSecret'
  BY <1>1 DEF Deployment, Following, OneBehind, KeysFollow, FallenBack, SubjectSecret, Chained
<1>3. \A f, t : Sound(f, t)' <=> Sound(f, t)
  BY <1>1 DEF Deployment, Sound, Dead
<1> QED BY <1>1, <1>2, <1>3 DEF Following

\* A token issued now is sound.
LEMMA IssuedSound ==
  ASSUME IInv, NEW f \in Families, f # "writer"
  PROVE  Issued(f) \in Token /\ Sound(f, Issued(f)) /\ Issued(f).key >= 0
<1> DEFINE mine == Ring("collector", f)
           t == Issued(f)
<1>1. mine \in Rings /\ "collector" \in Users[f] /\ now \in Nat
  BY FamiliesOf, TokenKeysAssumption DEF IInv, Typed, Processes
<1>2. /\ t.key = mine.active /\ t.at = now /\ t \in Token
  BY <1>1, RingFields DEF Issued, Token, NoKey
<1>3. mine.active \in Nat
  BY <1>1, RingFields
<1>4. ASSUME f \in Own
      PROVE  ~(t.key < env[f].active - 1) /\ ~(env[f].previous = NoKey /\ t.key < env[f].active)
  <2>1. env[f].active \in Nat
    BY <1>4, OwnFamiliesOf, RingFields DEF IInv
  <2>2. \/ env[f] = mine
        \/ env[f].active = mine.active + 1 /\ env[f].previous = mine.active
        \/ env[f].active = mine.active /\ env[f].previous = NoKey
    BY <1>1, <1>4 DEF IInv, Following, OneBehind
  <2> QED BY <1>2, <1>3, <2>1, <2>2 DEF NoKey
<1> QED BY <1>1, <1>2, <1>3, <1>4 DEF Sound

-----------------------------------------------------------------------------
(* The collector's token endpoints                                         *)

LEMMA WalletStep ==
  ASSUME IInv, NEW c \in Clients, NEW f \in TokenFamilies \cap Families,
         UNCHANGED <<Deployment, wire, verdict>>,
         wallet' \in [Clients -> [installation : Token, product : Token, subject : SUBSET SubjectKeys]],
         \A d \in Clients, g \in TokenFamilies :
           wallet'[d][g] = IF d = c /\ g = f THEN Issued(f) ELSE wallet[d][g],
         subjects' \in [Clients -> SUBSET SubjectKeys], OneSubject'
  PROVE  IInv'
<1>1. Typed /\ Following /\ WalletSound /\ WireSound
  BY DEF IInv
<1>2. /\ Own' = Own /\ Families' = Families /\ Following'
      /\ \A g, t : Sound(g, t)' <=> Sound(g, t)
  BY <1>1, DeploymentStays
<1>3. f # "writer" /\ Sound(f, Issued(f))
  BY IssuedSound DEF TokenFamilies
<1>4. WalletSound'
  <2>. SUFFICES ASSUME NEW d \in Clients, NEW g \in TokenFamilies
                PROVE  IF g \in Families THEN Sound(g, wallet[d][g])'
                                         ELSE wallet'[d][g] = NoToken
    BY <1>2 DEF WalletSound, NoToken
  <2>1. Sound(g, wallet[d][g])' <=> Sound(g, wallet'[d][g])
    BY <1>2 DEF Deployment, Sound, Dead, Ring, NoToken
  <2>2. CASE d = c /\ g = f
    <3>1. wallet'[d][g] = Issued(f)
      BY <2>2
    <3>2. Sound(g, wallet'[d][g])
      BY <1>3, <2>2, <3>1
    <3> QED BY <2>1, <2>2, <3>2
  <2>3. CASE ~(d = c /\ g = f)
    <3>1. wallet'[d][g] = wallet[d][g]
      BY <2>3
    <3>2. g \in Families => Sound(g, wallet'[d][g])
      BY <1>1, <3>1 DEF WalletSound
    <3> QED BY <1>1, <2>1, <3>1, <3>2 DEF WalletSound
  <2> QED BY <2>2, <2>3
<1>5. WireSound'
  BY <1>1, <1>2 DEF WireSound, Sound
<1>6. Typed'
  BY <1>1, <1>2 DEF Typed, OwnKeys, Deployment
<1> QED BY <1>2, <1>4, <1>5, <1>6 DEF IInv

\* Only a deployment that has the installation's keys accepts an installation token.
LEMMA AcceptedHasFamily ==
  ASSUME IInv, NEW c \in Clients, Accepts("collector", "installation", wallet[c].installation)
  PROVE  {"installation", "product", "subject"} \subseteq Families
<1>1. wallet[c].installation # NoToken
  BY DEF Accepts, Known, NoToken
<1>2. "installation" \in Families
  BY <1>1 DEF IInv, WalletSound, TokenFamilies
<1>3. "installation" \in Own
  BY <1>2 DEF Families, Fallback
<1> QED BY <1>2, <1>3 DEF Families, Fallback

\* The subject key an installation is given now.
LEMMA SubjectKeyNow ==
  ASSUME IInv, NEW c \in Clients, "subject" \in Families, "product" \in Families
  PROVE  /\ SubjectKey(c) \in SubjectKeys
         /\ "subject" \in Own => SubjectKey(c) = <<c, 0>>
         /\ "subject" \notin Own /\ "product" \notin Own =>
              SubjectKey(c) = <<c, Ring("collector", "product").active>>
<1>1. Typed /\ FallenBack /\ SubjectSecret /\ "collector" \in Processes
  BY DEF IInv, Following, Processes
<1>2. Ring("collector", "subject").active \in NoKey..LastKey
  <2>1. Ring("collector", "subject") \in Rings
    BY <1>1, FamiliesOf
  <2> QED BY <2>1, RingFields, TokenKeysAssumption DEF NoKey
<1>3. SubjectKey(c) \in SubjectKeys
  BY <1>2 DEF SubjectKey, SubjectKeys
<1>4. "subject" \in Own => SubjectKey(c) = <<c, 0>>
  BY <1>1 DEF SubjectSecret, SubjectKey
<1>5. ASSUME "subject" \notin Own, "product" \notin Own
      PROVE  SubjectKey(c) = <<c, Ring("collector", "product").active>>
  <2>1. /\ Ring("collector", "subject").active = Ring("collector", "installation").active
        /\ Ring("collector", "product").active = Ring("collector", "installation").active
    BY <1>1, <1>5 DEF FallenBack, Fallback
  <2> QED BY <2>1 DEF SubjectKey
<1> QED BY <1>3, <1>4, <1>5

LEMMA InstallationTokenKeepsIInv ==
  ASSUME IInv, NEW c \in Clients, Issue(c) \/ Renew(c)
  PROVE  IInv'
<1>1. "installation" \in TokenFamilies \cap Families
  BY AcceptedHasFamily DEF Issue, Renew, TokenFamilies
<1>2. /\ wallet' = [wallet EXCEPT ![c].installation = Issued("installation")]
      /\ UNCHANGED <<now, env, running, since, wire, verdict, subjects>>
  BY DEF Issue, Renew
<1>3. Issued("installation") \in Token
  BY <1>1, IssuedSound
<1>4. /\ wallet' \in [Clients -> [installation : Token, product : Token, subject : SUBSET SubjectKeys]]
      /\ \A d \in Clients :
           /\ wallet'[d].product = wallet[d].product /\ wallet'[d].subject = wallet[d].subject
           /\ wallet'[d].installation = IF d = c THEN Issued("installation") ELSE wallet[d].installation
  BY <1>2, <1>3 DEF IInv, Typed
<1>5. \A d \in Clients, g \in TokenFamilies :
        wallet'[d][g] = IF d = c /\ g = "installation" THEN Issued("installation") ELSE wallet[d][g]
  BY <1>4 DEF TokenFamilies
<1>6. Own' = Own
  BY <1>2 DEF Own
<1>7. OneSubject'
  BY <1>2, <1>4, <1>6 DEF IInv, OneSubject, NamesItsSubject, NoToken
<1>8. subjects' \in [Clients -> SUBSET SubjectKeys] /\ UNCHANGED <<Deployment, wire, verdict>>
  BY <1>2 DEF IInv, Typed, Deployment
<1> QED BY <1>1, <1>4, <1>5, <1>7, <1>8, WalletStep

LEMMA IssueAnonymousKeepsIInv ==
  ASSUME IInv, NEW c \in Clients, IssueAnonymous(c)
  PROVE  IInv'
<1> DEFINE t == Issued("product")
           s == SubjectKey(c)
<1>1. "product" \in TokenFamilies \cap Families /\ "subject" \in Families
  BY AcceptedHasFamily DEF IssueAnonymous, TokenFamilies
<1>2. /\ wallet' = [wallet EXCEPT ![c].product = t, ![c].subject = {s}]
      /\ subjects' = [subjects EXCEPT ![c] = @ \cup {s}]
      /\ UNCHANGED <<now, env, running, since, wire, verdict>>
  BY DEF IssueAnonymous
<1>3. t \in Token /\ t.key = Ring("collector", "product").active
  BY <1>1, IssuedSound DEF Issued
<1>4. /\ s \in SubjectKeys
      /\ "subject" \in Own => s = <<c, 0>>
      /\ "subject" \notin Own /\ "product" \notin Own => s = <<c, t.key>>
  BY <1>1, <1>3, SubjectKeyNow
<1> HIDE DEF t, s
<1>5. /\ wallet' \in [Clients -> [installation : Token, product : Token, subject : SUBSET SubjectKeys]]
      /\ wallet'[c].product = t /\ wallet'[c].subject = {s}
      /\ wallet'[c].installation = wallet[c].installation
      /\ \A d \in Clients \ {c} : wallet'[d] = wallet[d]
  BY <1>2, <1>3, <1>4 DEF IInv, Typed
<1>6. \A d \in Clients, g \in TokenFamilies :
        wallet'[d][g] = IF d = c /\ g = "product" THEN t ELSE wallet[d][g]
  BY <1>5 DEF TokenFamilies
<1>7. Own' = Own
  BY <1>2 DEF Own
<1>8. /\ subjects' \in [Clients -> SUBSET SubjectKeys]
      /\ subjects'[c] = subjects[c] \cup {s}
      /\ \A d \in Clients \ {c} : subjects'[d] = subjects[d]
  BY <1>2, <1>4 DEF IInv, Typed
<1>9. OneSubject'
  <2>. SUFFICES ASSUME NEW d \in Clients
                PROVE  ("subject" \in Own => subjects'[d] \subseteq {<<d, 0>>}) /\ NamesItsSubject(d)'
    BY <1>7 DEF OneSubject
  <2>1. ("subject" \in Own => subjects[d] \subseteq {<<d, 0>>}) /\ NamesItsSubject(d)
    BY DEF IInv, OneSubject
  <2>2. CASE d = c
    BY <1>4, <1>5, <1>7, <1>8, <2>1, <2>2 DEF NamesItsSubject
  <2>3. CASE d # c
    BY <1>5, <1>7, <1>8, <2>1, <2>3 DEF NamesItsSubject, NoToken
  <2> QED BY <2>2, <2>3
<1>10. UNCHANGED <<Deployment, wire, verdict>>
  BY <1>2 DEF Deployment
<1> QED BY <1>1, <1>5, <1>6, <1>8, <1>9, <1>10, WalletStep DEF t

-----------------------------------------------------------------------------
(* The collector's requests to the writer                                  *)

LEMMA SignKeepsIInv ==
  ASSUME IInv, NEW f \in SignedFamilies, Sign(f) \/ VerifySigned(f)
  PROVE  IInv'
<1>1. Typed /\ Following /\ WalletSound /\ WireSound /\ OneSubject
      /\ f \in Families /\ UNCHANGED <<Deployment, wallet, subjects>>
  BY DEF IInv, Sign, VerifySigned, Deployment
<1>2. /\ Own' = Own /\ Families' = Families /\ Following'
      /\ \A g, t : Sound(g, t)' <=> Sound(g, t)
  BY <1>1, DeploymentStays
<1>3. PICK t \in {NoToken, Issued(f)} : wire' = [wire EXCEPT ![f] = t]
  BY DEF Sign, VerifySigned
<1>4. /\ NoToken \in Token /\ Issued(f) \in Token /\ Issued(f).key >= 0
  <2>1. /\ Ring("collector", f) \in Rings /\ now \in Nat
    BY <1>1, FamiliesOf, TokenKeysAssumption DEF Typed, Processes
  <2> QED BY <2>1, RingFields, TokenKeysAssumption DEF Token, NoToken, Issued, NoKey
<1>5. f = "service" => Sound(f, t)
  BY <1>1, IssuedSound DEF Sound
<1>6. wire' \in [SignedFamilies -> Token] /\ \A g \in SignedFamilies :
        wire'[g] = IF g = f THEN t ELSE wire[g]
  BY <1>1, <1>3, <1>4 DEF Typed
<1>7. verdict' \in [SignedFamilies -> Verdicts]
  BY <1>1 DEF Sign, VerifySigned, Typed, Verdicts
<1>8. WireSound'
  <2>1. \A g \in SignedFamilies : wire'[g] # NoToken => wire'[g].key >= 0
    BY <1>1, <1>3, <1>4, <1>6 DEF WireSound
  <2>2. "service" \in Families => Sound("service", wire'["service"])
    BY <1>1, <1>5, <1>6 DEF WireSound, SignedFamilies
  <2>3. Sound("service", wire["service"])' <=> Sound("service", wire'["service"])
    BY <1>1, <1>2 DEF Deployment, Sound, Dead, Ring, NoToken
  <2> QED BY <1>2, <2>1, <2>2, <2>3 DEF WireSound, NoToken
<1>9. WalletSound'
  BY <1>1, <1>2 DEF WalletSound, Sound, NoToken
<1>10. Typed' /\ OneSubject'
  BY <1>1, <1>2, <1>6, <1>7 DEF Typed, OwnKeys, Deployment, OneSubject, NamesItsSubject, NoToken
<1> QED BY <1>2, <1>8, <1>9, <1>10 DEF IInv

-----------------------------------------------------------------------------
(* The operator                                                            *)

DeploymentTyped ==
  /\ now \in 0..MaxTime
  /\ env \in [Own -> Rings]
  /\ running \in [Processes -> [Families -> Rings]]
  /\ since \in [Own -> Nat] /\ (\A f \in Own : since[f] <= now)

\* A step of the operator or of time keeps the tokens it finds as they are.
LEMMA OperatorStep ==
  ASSUME IInv, UNCHANGED <<wallet, wire, verdict, subjects>>, Own' = Own, Families' = Families,
         DeploymentTyped', Following',
         \A f \in Families \ {"writer"}, t \in Token : Sound(f, t) => Sound(f, t)'
  PROVE  IInv'
<1>1. Typed /\ WalletSound /\ WireSound /\ OneSubject
  BY DEF IInv
<1>2. Typed'
  BY <1>1 DEF Typed, OwnKeys, DeploymentTyped
<1>3. WalletSound'
  <2>. SUFFICES ASSUME NEW c \in Clients, NEW f \in TokenFamilies
                PROVE  IF f \in Families THEN Sound(f, wallet[c][f])'
                                         ELSE wallet[c][f] = NoToken
    BY DEF WalletSound, NoToken
  <2>1. wallet[c][f] \in Token /\ f # "writer"
    BY <1>1 DEF Typed, TokenFamilies
  <2>2. PICK t \in Token : t = wallet[c][f]
    BY <2>1
  <2>3. Sound(f, wallet[c][f])' <=> Sound(f, t)'
    BY <2>2 DEF Sound, Dead, Ring, NoToken
  <2> QED BY <1>1, <2>1, <2>2, <2>3 DEF WalletSound
<1>4. WireSound'
  <2>1. PICK t \in Token : t = wire["service"]
    BY <1>1 DEF Typed, SignedFamilies
  <2>2. Sound("service", wire["service"])' <=> Sound("service", t)'
    BY <2>1 DEF Sound, Dead, Ring, NoToken
  <2> QED BY <1>1, <2>1, <2>2 DEF WireSound, NoToken
<1>5. OneSubject'
  BY <1>1 DEF OneSubject, NamesItsSubject, NoToken
<1> QED BY <1>2, <1>3, <1>4, <1>5 DEF IInv

LEMMA TickKeepsIInv ==
  ASSUME IInv, Tick
  PROVE  IInv'
<1>1. Typed /\ Following /\ now \in Nat /\ now' = now + 1 /\ now' \in 0..MaxTime
      /\ UNCHANGED <<env, running, since>>
  BY TokenKeysAssumption DEF IInv, Typed, Tick
<1>2. Own' = Own /\ Families' = Families /\ \A p, f : Ring(p, f)' = Ring(p, f)
  BY <1>1 DEF Own, Families, Ring
<1>3. Following'
  BY <1>1, <1>2 DEF Following, OneBehind, KeysFollow, FallenBack, SubjectSecret, Chained
<1>4. DeploymentTyped'
  BY <1>1, <1>2 DEF Typed, DeploymentTyped
<1>5. ASSUME NEW f \in Families \ {"writer"}, NEW t \in Token, Sound(f, t)
      PROVE  Sound(f, t)'
  <2>1. t.at \in Nat /\ Life[f] \in Nat
    BY <1>1, TokenFields, FamiliesOf
  <2> QED BY <1>1, <1>2, <1>5, <2>1 DEF Sound, Dead
<1> QED BY <1>2, <1>3, <1>4, <1>5, OperatorStep DEF Tick

\* Once every process has taken over the last change for longer than a token lives,
\* what is not signed with the active key is dead.
LEMMA SettledIsDead ==
  ASSUME IInv, NEW f \in Chained, Settled(f), NEW t \in Token,
         t # NoToken, Sound(f, t), t.key < env[f].active
  PROVE  Dead(f, t)
<1>1. f \in Own /\ f \in Families /\ f # "writer"
  BY DEF Chained, Families
<1>2. /\ Ring("collector", f) = env[f] /\ now > since[f] + Life[f]
      /\ since[f] \in Nat /\ Life[f] \in Nat /\ t.at \in Nat /\ now \in Nat
  BY <1>1, FamiliesOf, OwnFamiliesOf, TokenFields, TokenKeysAssumption DEF Settled, IInv, Typed
<1> QED BY <1>1, <1>2 DEF Sound, Dead

LEMMA RotateKeepsIInv ==
  ASSUME IInv, NEW f \in Own, Rotate(f) \/ Retire(f)
  PROVE  IInv'
<1>1. Typed /\ Following /\ Settled(f) /\ UNCHANGED <<now, running, since>>
  BY DEF IInv, Rotate, Retire
<1>2. env[f] \in Rings /\ env[f].active \in Nat
  BY <1>1, OwnFamiliesOf, RingFields
<1>3. PICK new \in Rings :
        /\ env' = [env EXCEPT ![f] = new]
        /\ \/ /\ new.active = env[f].active + 1 /\ f # "subject"
              /\ f # "writer" => new.previous = env[f].active
           \/ /\ new.active = env[f].active /\ new.previous = NoKey
  <2>1. CASE Rotate(f)
    <3> DEFINE new == [active |-> env[f].active + 1,
                       previous |-> IF f = "writer" THEN NoKey ELSE env[f].active]
    <3>1. new \in Rings
      BY <1>2, <2>1, TokenKeysAssumption DEF Rotate, Rings, NoKey
    <3>2. env' = [env EXCEPT ![f] = new]
      BY <2>1 DEF Rotate
    <3> QED BY <2>1, <3>1, <3>2 DEF Rotate
  <2>2. CASE Retire(f)
    <3> DEFINE new == [env[f] EXCEPT !.previous = NoKey]
    <3>1. new \in Rings /\ new.active = env[f].active /\ new.previous = NoKey
      BY <1>2, TokenKeysAssumption DEF Rings, NoKey
    <3>2. env' = [env EXCEPT ![f] = new]
      BY <2>2 DEF Retire
    <3> QED BY <3>1, <3>2
  <2> QED BY <2>1, <2>2
<1>4. /\ Own' = Own /\ Families' = Families /\ env' \in [Own -> Rings]
      /\ \A g \in Own : env'[g] = IF g = f THEN new ELSE env[g]
      /\ \A g, p : Ring(p, g)' = Ring(p, g)
  BY <1>1, <1>3 DEF Typed, Own, Families, Ring
<1>5. OneBehind'
  <2>1. \A p \in Users[f] : Ring(p, f) = env[f]
    BY <1>1 DEF Settled
  <2> QED BY <1>1, <1>3, <1>4, <2>1 DEF Following, OneBehind
<1>6. Following'
  <2>1. KeysFollow'
    BY <1>1, <1>2, <1>3, <1>4 DEF Following, KeysFollow, Chained
  <2>2. FallenBack' /\ SubjectSecret'
    BY <1>1, <1>3, <1>4 DEF Following, FallenBack, SubjectSecret
  <2> QED BY <1>5, <2>1, <2>2 DEF Following
<1>7. DeploymentTyped'
  BY <1>1, <1>4 DEF DeploymentTyped, Typed
<1>8. ASSUME NEW g \in Families \ {"writer"}, NEW t \in Token, Sound(g, t)
      PROVE  Sound(g, t)'
  <2>1. Dead(g, t)' = Dead(g, t) /\ Ring("collector", g)' = Ring("collector", g)
    BY <1>1 DEF Dead, Ring
  <2>2. CASE g # f
    BY <1>1, <1>4, <1>8, <2>1, <2>2 DEF Sound
  <2>3. CASE g = f
    <3>1. t # NoToken /\ t.key < env[f].active => Dead(f, t)
      BY <1>1, <1>8, <2>3, SettledIsDead DEF Chained
    <3>2. t.key \in Int
      BY TokenFields
    <3>3. /\ t # NoToken /\ t.key < env'[f].active - 1 => Dead(f, t)
          /\ t # NoToken /\ env'[f].previous = NoKey /\ t.key < env'[f].active => Dead(f, t)
      BY <1>2, <1>3, <1>4, <2>3, <3>1, <3>2 DEF NoKey
    <3> QED BY <1>1, <1>4, <1>8, <2>1, <2>3, <3>3 DEF Sound
  <2> QED BY <2>2, <2>3
<1> QED BY <1>4, <1>6, <1>7, <1>8, OperatorStep DEF Rotate, Retire

LEMMA RestartKeepsIInv ==
  ASSUME IInv, NEW p \in Processes, Restart(p)
  PROVE  IInv'
<1>1. Typed /\ Following /\ UNCHANGED <<now, env>> /\ now \in Nat
      /\ running' = [running EXCEPT ![p] = [f \in Families |-> HMACKeyring(f)]]
  BY TokenKeysAssumption DEF IInv, Restart, Typed
<1>2. since' \in [Own -> Nat] /\ \A f \in Own :
        since'[f] = IF p \in Users[f] /\ Ring(p, f) # env[f] THEN now ELSE since[f]
  BY <1>1 DEF Restart, Typed
<1>3. \A f \in Families : HMACKeyring(f) \in Rings
  <2>. SUFFICES ASSUME NEW f \in Families PROVE HMACKeyring(f) \in Rings
    OBVIOUS
  <2>1. CASE f \in Own
    BY <1>1, <2>1, OwnFamiliesOf DEF HMACKeyring
  <2>2. CASE f \notin Own
    <3>1. env[Fallback[f]] \in Rings
      BY <1>1, <2>2, FamiliesOf, OwnFamiliesOf
    <3> QED BY <2>2, <3>1, RingFields, TokenKeysAssumption DEF HMACKeyring, Rings, NoKey
  <2> QED BY <2>1, <2>2
<1>4. /\ Own' = Own /\ Families' = Families /\ running' \in [Processes -> [Families -> Rings]]
      /\ \A q \in Processes : \A f \in Families :
           Ring(q, f)' = IF q = p THEN HMACKeyring(f) ELSE Ring(q, f)
  BY <1>1, <1>3 DEF Typed, Ring, Own, Families
<1>5. \A f \in Own : f \in Families /\ Users[f] \subseteq Processes /\ HMACKeyring(f) = env[f]
  BY <1>1, FamiliesOf, OwnFamiliesOf DEF HMACKeyring
<1>6. OneBehind'
  BY <1>1, <1>4, <1>5 DEF Following, OneBehind
<1>7. FallenBack'
  <2>. SUFFICES ASSUME NEW f \in Families \ Own, NEW q \in Processes
                PROVE  Ring(q, f)' = [active |-> Ring(q, Fallback[f])'.active, previous |-> NoKey]
    BY <1>4 DEF FallenBack
  <2>1. Fallback[f] \in Own /\ Fallback[f] \in Families
    BY <1>1, <1>5, FamiliesOf
  <2> QED BY <1>1, <1>4, <1>5, <2>1 DEF Following, FallenBack, HMACKeyring
<1>8. Following'
  <2>1. KeysFollow'
    BY <1>1, <1>4 DEF Following, KeysFollow, Chained
  <2>2. SubjectSecret'
    BY <1>1, <1>4, <1>5 DEF Following, SubjectSecret
  <2> QED BY <1>6, <1>7, <2>1, <2>2 DEF Following
<1>9. DeploymentTyped'
  BY <1>1, <1>2, <1>4 DEF DeploymentTyped, Typed
<1>10. ASSUME NEW f \in Families \ {"writer"}, NEW t \in Token, Sound(f, t), t # NoToken
       PROVE  Sound(f, t)'
  <2>1. "collector" \in Users[f] /\ "collector" \in Processes /\ t.at \in Nat /\ t.key \in Int
    BY <1>1, FamiliesOf, TokenFields DEF Processes
  <2>2. Dead(f, t)' = Dead(f, t)
    BY <1>1 DEF Dead
  <2>3. CASE f \in Own
    <3>1. /\ since[f] \in Nat /\ since[f] <= now
          /\ env[f].active \in Nat /\ Ring("collector", f).active \in Nat
          /\ Ring("collector", f).active <= env[f].active
      BY <1>1, <2>1, <2>3, FamiliesOf, OwnFamiliesOf, RingFields DEF Following, OneBehind
    <3>2. t.key \in 0..Ring("collector", f)'.active
      BY <1>4, <1>5, <1>10, <2>1, <2>3, <3>1 DEF Sound
    <3>3. t.key < Ring("collector", f)'.active => t.at <= since'[f]
      <4>1. CASE p = "collector"
        BY <1>2, <1>4, <1>5, <1>10, <2>1, <2>3, <3>1, <4>1 DEF Sound
      <4>2. CASE p # "collector"
        <5>1. Ring("collector", f)' = Ring("collector", f)
          BY <1>4, <2>1, <4>2
        <5> QED BY <1>2, <1>10, <2>1, <2>3, <3>1, <5>1 DEF Sound
      <4> QED BY <4>1, <4>2
    <3> QED BY <1>1, <1>10, <2>2, <2>3, <3>2, <3>3 DEF Sound
  <2>4. CASE f \notin Own
    <3>1. /\ Fallback[f] \in Own /\ Fallback[f] \in Families /\ "collector" \in Users[Fallback[f]]
      BY <2>1, <2>4, <1>1, FamiliesOf, OwnFamiliesOf DEF Fallback, Users, Processes
    <3>2. /\ Ring("collector", f).active = Ring("collector", Fallback[f]).active
          /\ Ring("collector", f)'.active = Ring("collector", Fallback[f])'.active
      BY <1>1, <1>4, <1>7, <2>1, <2>4 DEF Following, FallenBack
    <3>3. /\ Ring("collector", Fallback[f]).active \in Nat /\ env[Fallback[f]].active \in Nat
          /\ Ring("collector", Fallback[f]).active <= env[Fallback[f]].active
      BY <1>1, <2>1, <3>1, FamiliesOf, OwnFamiliesOf, RingFields DEF Following, OneBehind
    <3>4. t.key \in 0..Ring("collector", f)'.active
      BY <1>4, <1>5, <1>10, <2>1, <3>1, <3>2, <3>3 DEF Sound
    <3>5. t.at <= now' /\ f \notin Own'
      BY <1>1, <1>4, <1>10, <2>4 DEF Sound
    <3> QED BY <3>4, <3>5 DEF Sound
  <2> QED BY <2>3, <2>4
<1>11. \A f \in Families \ {"writer"}, t \in Token : Sound(f, t) => Sound(f, t)'
  BY <1>10 DEF Sound, NoToken
<1> QED BY <1>4, <1>8, <1>9, <1>11, OperatorStep DEF Restart

-----------------------------------------------------------------------------
(* The theorems                                                            *)

LEMMA InitIInv ==
  ASSUME Init
  PROVE  IInv
<1> DEFINE first == [active |-> 0, previous |-> NoKey]
<1>1. PICK own \in Deployments : env = FirstRings(own)
  BY DEF Init
<1>2. Own = own /\ OwnKeys /\ \A f \in Own : env[f] = first
  BY <1>1, TokenKeysAssumption DEF FirstRings, Own, OwnKeys
<1>3. first \in Rings /\ first.active = 0 /\ first.previous = NoKey /\ NoToken \in Token
  BY TokenKeysAssumption DEF Rings, NoKey, NoToken, Token
<1>4. \A f \in Families : HMACKeyring(f) = first /\ (f \notin Own => Fallback[f] \in Own)
  BY <1>2 DEF HMACKeyring, Families, OwnKeys
<1>5. \A f \in Families : \A p \in Processes : Ring(p, f) = first
  BY <1>4 DEF Init, Ring
<1>6. env \in [Own -> Rings] /\ running \in [Processes -> [Families -> Rings]]
  BY <1>1, <1>2, <1>3, <1>4 DEF Init, FirstRings
<1> HIDE DEF first
<1>7. wallet \in [Clients -> [installation : Token, product : Token, subject : SUBSET SubjectKeys]]
  BY <1>3 DEF Init
<1>8. Typed
  BY <1>2, <1>3, <1>6, <1>7, TokenKeysAssumption DEF Init, Typed, Verdicts
<1>9. Following
  <2>1. \A f \in Own : f \in Families /\ Users[f] \subseteq Processes
    BY <1>8, FamiliesOf, OwnFamiliesOf
  <2>2. OneBehind
    BY <1>2, <1>5, <2>1 DEF OneBehind
  <2>3. KeysFollow
    BY <1>2, <1>3 DEF KeysFollow, Chained
  <2>4. FallenBack
    BY <1>3, <1>4, <1>5, <2>1 DEF FallenBack, first
  <2>5. SubjectSecret
    BY <1>2, <1>3, <1>5, <2>1 DEF SubjectSecret
  <2> QED BY <2>2, <2>3, <2>4, <2>5 DEF Following
<1>10. WalletSound /\ WireSound /\ OneSubject
  BY DEF Init, WalletSound, WireSound, OneSubject, NamesItsSubject, Sound, TokenFamilies, SignedFamilies
<1> QED BY <1>8, <1>9, <1>10 DEF IInv

LEMMA NextKeepsIInv ==
  ASSUME IInv, [Next]_vars
  PROVE  IInv'
<1>1. CASE UNCHANGED vars
  <2>1. Own' = Own /\ DeploymentTyped'
    BY <1>1 DEF vars, Own, Families, DeploymentTyped, IInv, Typed
  <2>2. Families' = Families /\ Following' /\ \A f, t : Sound(f, t)' <=> Sound(f, t)
    BY <1>1, DeploymentStays DEF vars, Deployment, IInv
  <2> QED BY <1>1, <2>1, <2>2, OperatorStep DEF vars
<1> QED
  BY <1>1, InstallationTokenKeepsIInv, IssueAnonymousKeepsIInv, SignKeepsIInv, RotateKeepsIInv,
     RestartKeepsIInv, TickKeepsIInv DEF Next

\* No process is more than one change of the keys behind the operator.
THEOREM KeysInvariance == Spec => []IInv
<1>1. Init => IInv
  BY InitIInv
<1>2. IInv /\ [Next]_vars => IInv'
  BY NextKeepsIInv
<1> QED BY <1>1, <1>2, PTL DEF Spec

\* Keys in use follow each other; no rotation gives an installation a second subject where
\* the subject secret is configured; and where it is not, a product token that is accepted
\* still names the installation's subject, unless product tokens have keys of their own.
THEOREM DeploymentIsSound == Spec => []Inv
<1>1. IInv => Inv
  <2>. SUFFICES ASSUME IInv PROVE Inv
    OBVIOUS
  <2>1. \A f \in Own : since[f] \in 0..now
    BY DEF IInv, Typed
  <2>2. ASSUME NEW f \in Families, NEW ring \in {HMACKeyring(f)} \cup {Ring(p, f) : p \in Processes}
        PROVE  ring.active \in 0..LastKey /\ ring.previous \in NoKey..(ring.active - 1)
    <3>1. f \in Own => env[f] \in Rings
      BY OwnFamiliesOf DEF IInv
    <3>2. f \notin Own => env[Fallback[f]] \in Rings
      BY FamiliesOf, OwnFamiliesOf DEF IInv
    <3>3. HMACKeyring(f) \in Rings
      BY <3>1, <3>2, RingFields, TokenKeysAssumption DEF HMACKeyring, Rings, NoKey
    <3>4. ring \in Rings
      BY <3>3, FamiliesOf DEF IInv
    <3> QED BY <3>4, TokenKeysAssumption DEF Rings, NoKey
  <2>3. ASSUME NEW c \in Clients, NEW f \in TokenFamilies
        PROVE  wallet[c][f].key \in NoKey..LastKey /\ wallet[c][f].at \in 0..now
    <3>1. wallet[c][f] \in Token /\ now \in Nat
      BY TokenKeysAssumption DEF IInv, Typed, TokenFamilies
    <3>2. wallet[c][f] = NoToken \/ wallet[c][f].at <= now
      BY DEF IInv, WalletSound, Sound
    <3> QED BY <3>1, <3>2 DEF Token, NoToken
  <2>4. TypeOK
    BY <2>1, <2>2, <2>3 DEF TypeOK, IInv, Typed, TokenFamilies
  <2>5. ASSUME NEW c \in Clients
        PROVE  /\ "subject" \in Own => \A x, y \in subjects[c] : x = y
               /\ /\ "product" \in Own => "subject" \in Own
                  /\ Accepts("collector", "product", wallet[c].product)
                  => wallet[c].subject = {SubjectKey(c)}
    <3>1. "subject" \in Own => \A x, y \in subjects[c] : x = y
      BY DEF IInv, OneSubject
    <3>2. ASSUME "product" \in Own => "subject" \in Own,
                 Accepts("collector", "product", wallet[c].product)
          PROVE  wallet[c].subject = {SubjectKey(c)}
      <4>1. wallet[c].product # NoToken /\ NamesItsSubject(c)
        BY <3>2 DEF Accepts, Known, NoToken, IInv, OneSubject
      <4>2. "product" \in Families
        BY <4>1 DEF IInv, WalletSound, TokenFamilies
      <4>3. "subject" \in Families
        BY <4>2 DEF IInv, Typed, OwnKeys, Families, Fallback
      <4>4. CASE "subject" \in Own
        BY <4>1, <4>2, <4>3, <4>4, SubjectKeyNow DEF NamesItsSubject
      <4>5. CASE "subject" \notin Own
        <5>1. "product" \notin Own
          BY <3>2, <4>5
        <5>2. Ring("collector", "product").previous = NoKey
          BY <4>2, <5>1 DEF IInv, Following, FallenBack, Processes
        <5>3. wallet[c].product.key = Ring("collector", "product").active
          BY <3>2, <5>2 DEF Accepts, Known
        <5> QED BY <4>1, <4>2, <4>3, <4>5, <5>1, <5>3, SubjectKeyNow DEF NamesItsSubject
      <4> QED BY <4>4, <4>5
    <3> QED BY <3>1, <3>2
  <2>6. SubjectIsStable
    BY <2>5 DEF SubjectIsStable
  <2> QED BY <2>4, <2>6 DEF Inv
<1> QED BY <1>1, KeysInvariance, PTL

\* A verifier that is at most one change behind knows the key of every live token it
\* may be shown, unless the key is newer than its own.
LEMMA LiveKeyIsKnown ==
  ASSUME IInv, NEW f \in Chained, NEW p \in Users[f], NEW t \in Token,
         t # NoToken, Sound(f, t), Fresh(f, t), t.key <= Ring(p, f).active
  PROVE  Known(Ring(p, f), t.key)
<1>0. f \in Own /\ f \in Families
  BY DEF Chained, Families
<1>1. /\ Life[f] \in Nat /\ env[f] \in Rings /\ Ring(p, f) \in Rings
      /\ t.at \in Nat /\ t.key \in Int /\ now \in Nat
  BY <1>0, FamiliesOf, OwnFamiliesOf, TokenFields, TokenKeysAssumption DEF IInv, Typed
<1>2. ~Dead(f, t)
  BY <1>1 DEF Fresh, Dead
<1>3. /\ env[f].active \in Nat /\ Ring(p, f).active \in Nat
      /\ env[f].previous \in Int /\ t.key \in Nat
  BY <1>1, RingFields DEF Sound
<1>4. /\ t.key >= env[f].active - 1
      /\ env[f].previous = NoKey => t.key >= env[f].active
  BY <1>0, <1>2, <1>3 DEF Sound
<1>5. \/ env[f] = Ring(p, f)
      \/ env[f].active = Ring(p, f).active + 1
      \/ env[f].active = Ring(p, f).active /\ env[f].previous = NoKey
  BY <1>0 DEF IInv, Following, OneBehind
<1>6. env[f].previous \in {NoKey, env[f].active - 1}
  BY DEF IInv, Following, KeysFollow
<1>7. t.key \in {Ring(p, f).active, Ring(p, f).previous}
  BY <1>3, <1>4, <1>5, <1>6
<1> QED BY <1>3, <1>7 DEF Known, NoKey

\* Through every rotation a token that is not too old is accepted, unless it is a product
\* token signed with an installation secret that has been replaced.
THEOREM TokensLive == Spec => []TokenLives
<1>1. IInv => TokenLives
  <2>. SUFFICES ASSUME IInv, NEW c \in Clients, NEW f \in TokenFamilies,
                       wallet[c][f] # NoToken, Fresh(f, wallet[c][f])
                PROVE  \/ Accepts("collector", f, wallet[c][f])
                       \/ f \notin Own /\ wallet[c][f].key < Ring("collector", f).active
    BY DEF TokenLives, TokenFamilies
  <2>1. f \in Families /\ f # "writer"
    BY DEF IInv, WalletSound, TokenFamilies
  <2>2. /\ wallet[c][f] \in Token /\ Sound(f, wallet[c][f])
        /\ "collector" \in Users[f] /\ Ring("collector", f) \in Rings
    BY <2>1, FamiliesOf DEF IInv, Typed, WalletSound, TokenFamilies, Processes
  <2>3. wallet[c][f].key \in 0..Ring("collector", f).active
    BY <2>2 DEF Sound
  <2>4. CASE f \in Own
    BY <2>1, <2>2, <2>3, <2>4, LiveKeyIsKnown DEF Accepts, Chained
  <2>5. CASE f \notin Own
    <3>1. wallet[c][f].key < Ring("collector", f).active \/ wallet[c][f].key = Ring("collector", f).active
      BY <2>2, <2>3, RingFields
    <3> QED BY <2>3, <2>5, <3>1 DEF Accepts, Known, NoKey
  <2> QED BY <2>4, <2>5
<1> QED BY <1>1, KeysInvariance, PTL

\* The writer refuses a fresh signature only when it runs with older keys than the
\* collector or, for V1 and its secret as a fallback, with other ones.
THEOREM SignaturesAreAccepted == Spec => SignedIsAccepted
<1>1. ASSUME IInv, Next, NEW f \in SignedFamilies,
             wire[f] # NoToken, wire'[f] = NoToken, Fresh(f, wire[f]), verdict'[f] = "refused"
      PROVE  IF f = "writer" \/ f \notin Own THEN wire[f].key # Ring("writer", f).active
             ELSE wire[f].key > Ring("writer", f).active
  <2>1. wire[f] \in Token /\ wire \in [SignedFamilies -> Token]
    BY <1>1 DEF IInv, Typed
  <2>2. VerifySigned(f)
    <3>1. PICK g \in SignedFamilies : Sign(g) \/ VerifySigned(g)
      BY <1>1 DEF Next, Issue, Renew, IssueAnonymous, Rotate, Retire, Restart, Tick
    <3>2. g = f
      BY <1>1, <2>1, <3>1 DEF Sign, VerifySigned
    <3> QED BY <1>1, <3>1, <3>2 DEF Sign
  <2>3. ~Accepts("writer", f, wire[f]) /\ f \in Families
    BY <1>1, <2>2 DEF VerifySigned, IInv, Typed
  <2>4. ~Known(Ring("writer", f), wire[f].key) /\ wire[f].key # NoKey
    BY <1>1, <2>3 DEF Accepts, IInv, WireSound, NoKey
  <2>5. CASE f = "writer" \/ f \notin Own
    BY <2>4, <2>5 DEF Known
  <2>6. CASE f = "service" /\ f \in Own
    <3>1. Sound(f, wire[f]) /\ "writer" \in Users[f] /\ f \in Chained
      BY <1>1, <2>3, <2>6 DEF IInv, WireSound, Users, Processes, Chained
    <3>2. ~(wire[f].key <= Ring("writer", f).active)
      BY <1>1, <2>1, <2>4, <3>1, LiveKeyIsKnown
    <3>3. wire[f].key \in Int /\ Ring("writer", f).active \in Nat
      BY <1>1, <2>1, <2>3, TokenFields, FamiliesOf, RingFields DEF IInv, Processes
    <3> QED BY <2>6, <3>2, <3>3
  <2> QED BY <2>5, <2>6 DEF SignedFamilies
<1>2. IInv /\ [Next]_vars =>
        [\A f \in SignedFamilies :
           wire[f] # NoToken /\ wire'[f] = NoToken /\ Fresh(f, wire[f]) /\ verdict'[f] = "refused" =>
             IF f = "writer" \/ f \notin Own THEN wire[f].key # Ring("writer", f).active
             ELSE wire[f].key > Ring("writer", f).active]_vars
  BY <1>1
<1> QED BY <1>2, KeysInvariance, PTL DEF Spec, SignedIsAccepted
=============================================================================
