--------------------------- MODULE EnrollmentProofs ---------------------------
(***************************************************************************)
(* For any number of requests, profiles, uses of a token and disturbances,   *)
(* with the code as shipped or with its names defined: the token admits no    *)
(* more than it should, key and policy stay of one enrolment, and contents    *)
(* that have been replaced are marked.                                      *)
(***************************************************************************)
EXTENDS Enrollment, TLAPS

Places == Ended \cup Service \cup {"idle", "check", "first", "second"}

-----------------------------------------------------------------------------
(* How a request moves, and what it keeps.                                  *)

LEMMA Ids == /\ \A r \in Requests : r \in Nat /\ r # Nobody /\ r # Remover /\ r # Earlier
             /\ Remover # Nobody /\ Earlier # Nobody
BY EnrollmentBounds DEF Requests, Nobody, Remover, Earlier

LEMMA Moves ==
    ASSUME pc \in [Requests -> Places], NEW r \in Requests, NEW p \in Places, Go(r, p)
    PROVE  /\ pc' \in [Requests -> Places] /\ pc'[r] = p
           /\ \A q \in Requests \ {r} : pc'[q] = pc[q]
BY DEF Go

LEMMA Blanks ==
    /\ Blank \in Held /\ NoToken \in Token /\ NoDevice \in Device /\ NoPolicy \in Policy
    /\ NoDevice.key = Nobody /\ NoPolicy.profile = Nobody /\ ~NoToken.used /\ NoToken.mode = "none"
    /\ NoToken.max = 0 /\ NoToken.profile = Nobody /\ NoToken.count = 0
    /\ Blank.by = "none" /\ ~NoDevice.outdated
BY DEF Blank, NoToken, NoDevice, NoPolicy, Held, Token, Device, Policy

LEMMA Endings ==
    ASSUME pc \in [Requests -> Places], mine \in [Requests -> Held],
           NEW r \in Requests, NEW p \in Places, End(r, p)
    PROVE  /\ pc' \in [Requests -> Places] /\ pc'[r] = p
           /\ mine' \in [Requests -> Held] /\ mine'[r] = Blank
           /\ \A q \in Requests \ {r} : pc'[q] = pc[q] /\ mine'[q] = mine[q]
<1>1. Go(r, p) /\ mine' = [mine EXCEPT ![r] = Blank]
  BY DEF End
<1> HIDE DEF Blank
<1> QED
  BY <1>1, Moves, Blanks

LEMMA Keeps ==
    ASSUME mine \in [Requests -> Held], NEW r \in Requests
    PROVE  /\ \A f, v : Keep(r, f, v) => \A q \in Requests \ {r} : mine'[q] = mine[q]
           /\ \A v \in {"token", "secret"} : Keep(r, "by", v) =>
                 mine' \in [Requests -> Held] /\ mine'[r] = [mine[r] EXCEPT !.by = v]
           /\ \A v \in Profiles : Keep(r, "profile", v) =>
                 mine' \in [Requests -> Held] /\ mine'[r] = [mine[r] EXCEPT !.profile = v]
           /\ \A v \in Token : Keep(r, "token", v) =>
                 mine' \in [Requests -> Held] /\ mine'[r] = [mine[r] EXCEPT !.token = v]
           /\ \A v \in Device : Keep(r, "dev", v) =>
                 mine' \in [Requests -> Held] /\ mine'[r] = [mine[r] EXCEPT !.dev = v]
           /\ \A v \in Nat : Keep(r, "static", v) =>
                 mine' \in [Requests -> Held] /\ mine'[r] = [mine[r] EXCEPT !.static = v]
           /\ \A v \in Nat : Keep(r, "linked", v) =>
                 mine' \in [Requests -> Held] /\ mine'[r] = [mine[r] EXCEPT !.linked = v]
<1>1. ASSUME NEW f, NEW v, Keep(r, f, v), NEW q \in Requests \ {r} PROVE mine'[q] = mine[q]
  BY <1>1 DEF Keep
<1>2. ASSUME NEW v \in {"token", "secret"}, Keep(r, "by", v)
      PROVE  mine' \in [Requests -> Held] /\ mine'[r] = [mine[r] EXCEPT !.by = v]
  <2>1. mine' = [mine EXCEPT ![r].by = v]
    BY <1>2 DEF Keep
  <2> QED
    BY <2>1 DEF Held
<1>3. ASSUME NEW v \in Profiles, Keep(r, "profile", v)
      PROVE  mine' \in [Requests -> Held] /\ mine'[r] = [mine[r] EXCEPT !.profile = v]
  <2>1. mine' = [mine EXCEPT ![r].profile = v]
    BY <1>3 DEF Keep
  <2> QED
    BY <2>1 DEF Held
<1>4. ASSUME NEW v \in Token, Keep(r, "token", v)
      PROVE  mine' \in [Requests -> Held] /\ mine'[r] = [mine[r] EXCEPT !.token = v]
  <2>1. mine' = [mine EXCEPT ![r].token = v]
    BY <1>4 DEF Keep
  <2> QED
    BY <2>1 DEF Held
<1>5. ASSUME NEW v \in Device, Keep(r, "dev", v)
      PROVE  mine' \in [Requests -> Held] /\ mine'[r] = [mine[r] EXCEPT !.dev = v]
  <2>1. mine' = [mine EXCEPT ![r].dev = v]
    BY <1>5 DEF Keep
  <2> QED
    BY <2>1 DEF Held
<1>6. ASSUME NEW v \in Nat, Keep(r, "static", v)
      PROVE  mine' \in [Requests -> Held] /\ mine'[r] = [mine[r] EXCEPT !.static = v]
  <2>1. mine' = [mine EXCEPT ![r].static = v]
    BY <1>6 DEF Keep
  <2> QED
    BY <2>1 DEF Held
<1>7. ASSUME NEW v \in Nat, Keep(r, "linked", v)
      PROVE  mine' \in [Requests -> Held] /\ mine'[r] = [mine[r] EXCEPT !.linked = v]
  <2>1. mine' = [mine EXCEPT ![r].linked = v]
    BY <1>7 DEF Keep
  <2> QED
    BY <2>1 DEF Held
<1> QED
  BY <1>1, <1>2, <1>3, <1>4, <1>5, <1>6, <1>7

\* Writing one field of what a request holds leaves the others.
LEMMA HeldFields ==
    ASSUME NEW h \in Held, NEW v
    PROVE  /\ LET k == [h EXCEPT !.by = v]
              IN  k.profile = h.profile /\ k.token = h.token /\ k.static = h.static /\ k.linked = h.linked
           /\ LET k == [h EXCEPT !.profile = v]
              IN  k.profile = v /\ k.by = h.by /\ k.token = h.token /\ k.static = h.static /\ k.linked = h.linked
           /\ LET k == [h EXCEPT !.token = v]
              IN  k.token = v /\ k.by = h.by /\ k.profile = h.profile /\ k.static = h.static /\ k.linked = h.linked
           /\ LET k == [h EXCEPT !.dev = v]
              IN  k.by = h.by /\ k.token = h.token /\ k.profile = h.profile /\ k.static = h.static
                  /\ k.linked = h.linked
           /\ LET k == [h EXCEPT !.static = v]
              IN  k.static = v /\ k.by = h.by /\ k.token = h.token /\ k.profile = h.profile
                  /\ k.linked = h.linked
           /\ LET k == [h EXCEPT !.linked = v]
              IN  k.linked = v /\ k.by = h.by /\ k.token = h.token /\ k.profile = h.profile
                  /\ k.static = h.static
BY DEF Held

\* What the service reads into its hands changes nothing else there.
LEMMA Reads ==
    ASSUME mine \in [Requests -> Held], NEW r \in Requests, NEW f \in {"dev", "static", "linked"}, NEW v,
           f = "dev" => v \in Device,
           f # "dev" => v \in Nat,
           Keep(r, f, v)
    PROVE  /\ mine' \in [Requests -> Held] /\ \A q \in Requests \ {r} : mine'[q] = mine[q]
           /\ mine'[r].by = mine[r].by /\ mine'[r].token = mine[r].token
           /\ mine'[r].profile = mine[r].profile
           /\ mine'[r].static = IF f = "static" THEN v ELSE mine[r].static
           /\ mine'[r].linked = IF f = "linked" THEN v ELSE mine[r].linked
<1>1. mine[r] \in Held /\ \A q \in Requests \ {r} : mine'[q] = mine[q]
  BY Keeps
<1>2. CASE f = "dev"
  <2>1. mine' \in [Requests -> Held] /\ mine'[r] = [mine[r] EXCEPT !.dev = v]
    BY <1>2, Keeps
  <2> QED
    BY <1>1, <1>2, <2>1, HeldFields
<1>3. CASE f = "static"
  <2>1. mine' \in [Requests -> Held] /\ mine'[r] = [mine[r] EXCEPT !.static = v]
    BY <1>3, Keeps
  <2> QED
    BY <1>1, <1>3, <2>1, HeldFields
<1>4. CASE f = "linked"
  <2>1. mine' \in [Requests -> Held] /\ mine'[r] = [mine[r] EXCEPT !.linked = v]
    BY <1>4, Keeps
  <2> QED
    BY <1>1, <1>4, <2>1, HeldFields
<1> QED
  BY <1>2, <1>3, <1>4

\* An HSET writes its field and, on a key that is gone, makes a bare one.
LEMMA Hsets ==
    ASSUME token \in Token
    PROVE  /\ \A n \in Nat : Hset("count", n) =>
                 token' \in Token /\ token'.count = n /\ token'.used = token.used
           /\ \A b \in BOOLEAN : Hset("used", b) =>
                 token' \in Token /\ token'.used = b /\ token'.count = token.count
           /\ \A f \in {"count", "used"} : \A v : Hset(f, v) =>
                 /\ token'.max = token.max /\ token'.profile = token.profile
                 /\ token'.mode = IF token.mode = "none" THEN "bare" ELSE token.mode
<1>1. ASSUME NEW n \in Nat, Hset("count", n)
      PROVE  /\ token' \in Token /\ token'.count = n /\ token'.used = token.used
             /\ token'.max = token.max /\ token'.profile = token.profile
             /\ token'.mode = IF token.mode = "none" THEN "bare" ELSE token.mode
  BY <1>1 DEF Hset, Token
<1>2. ASSUME NEW b \in BOOLEAN, Hset("used", b)
      PROVE  /\ token' \in Token /\ token'.used = b /\ token'.count = token.count
             /\ token'.max = token.max /\ token'.profile = token.profile
             /\ token'.mode = IF token.mode = "none" THEN "bare" ELSE token.mode
  BY <1>2 DEF Hset, Token
<1>3. ASSUME NEW f \in {"count", "used"}, NEW v, Hset(f, v)
      PROVE  /\ token'.max = token.max /\ token'.profile = token.profile
             /\ token'.mode = IF token.mode = "none" THEN "bare" ELSE token.mode
  BY <1>3 DEF Hset, Token
<1> QED
  BY <1>1, <1>2, <1>3

LEMMA TokenFields ==
    ASSUME NEW t \in Token
    PROVE  /\ t.mode \in {"none", "bare", "single", "batch"} /\ t.count \in Nat /\ t.max \in Nat
           /\ t.used \in BOOLEAN
           /\ t.mode \in {"single", "batch"} => t.profile \in Profiles /\ t.max > 0
BY EnrollmentBounds DEF Token
-----------------------------------------------------------------------------
(* Types.                                                                  *)

\* What a request in the service or at a token owes, when only that request moves.
LEMMA OneMoves ==
    ASSUME TypeOK, NEW r \in Requests, pc' \in [Requests -> Places],
           \A q \in Requests \ {r} : pc'[q] = pc[q] /\ mine'[q] = mine[q],
           pc'[r] \in Service => mine'[r].profile \in Profiles,
           pc'[r] \in {"first", "second"} => mine'[r].token.mode # "none"
    PROVE  \A q \in Requests : /\ pc'[q] \in Service => mine'[q].profile \in Profiles
                               /\ q \in Validating' => mine'[q].token.mode # "none"
BY DEF TypeOK, Validating

LEMMA TypePlaces == TypeOK => pc \in [Requests -> Places]
BY DEF TypeOK, Places

\* A request that ends, or that moves on in the service.
LEMMA Ordinary ==
    ASSUME TypeOK, NEW r \in Requests,
           \/ \E p \in Ended : End(r, p)
           \/ \E p \in Service \cup Ended : Go(r, p) /\ UNCHANGED mine /\ pc[r] \in Service
    PROVE  /\ pc' \in [Requests -> Places] /\ mine' \in [Requests -> Held]
           /\ \A q \in Requests : /\ pc'[q] \in Service => mine'[q].profile \in Profiles
                                  /\ q \in Validating' => mine'[q].token.mode # "none"
<1>0. pc \in [Requests -> Places] /\ mine \in [Requests -> Held]
  BY TypePlaces DEF TypeOK
<1>1. ASSUME NEW p \in Ended, End(r, p)
      PROVE  /\ pc' \in [Requests -> Places] /\ mine' \in [Requests -> Held]
             /\ pc'[r] = p /\ \A q \in Requests \ {r} : pc'[q] = pc[q] /\ mine'[q] = mine[q]
  BY <1>0, <1>1, Endings DEF Places
<1>2. ASSUME NEW p \in Service \cup Ended, Go(r, p), mine' = mine
      PROVE  /\ pc' \in [Requests -> Places] /\ mine' \in [Requests -> Held]
             /\ pc'[r] = p /\ \A q \in Requests \ {r} : pc'[q] = pc[q] /\ mine'[q] = mine[q]
  BY <1>0, <1>2, Moves DEF Places
<1>3. CASE \E p \in Ended : End(r, p)
  BY <1>1, <1>3, OneMoves DEF Ended, Service
<1>4. CASE \E p \in Service \cup Ended : Go(r, p) /\ UNCHANGED mine /\ pc[r] \in Service
  <2>1. mine[r].profile \in Profiles
    BY <1>4 DEF TypeOK
  <2> QED
    BY <1>2, <1>4, <2>1, OneMoves DEF Ended, Service
<1> QED
  BY <1>3, <1>4

LEMMA InitType == Init => TypeOK
<1> SUFFICES ASSUME Init PROVE TypeOK
  OBVIOUS
<1>1. mine \in [Requests -> Held] /\ token \in Token /\ pc \in [Requests -> Places]
  BY Blanks DEF Init, Places
<1>2. dev \in Device
  BY Blanks DEF Init, NoDevice, Device
<1>3. pol \in Policy
  <2>1. CASE pol = NoPolicy
    BY <2>1, Blanks
  <2>2. CASE \E p \in Profiles : pol = [NoPolicy EXCEPT !.profile = p]
    BY <2>2 DEF NoPolicy, Policy
  <2> QED
    BY <2>1, <2>2 DEF Init
<1>4. history \in History /\ held \in Requests \cup {Nobody, Earlier} /\ current \in BOOLEAN
  BY DEF Init, History
<1> QED
  BY <1>1, <1>2, <1>3, <1>4 DEF Init, TypeOK, Places, Service, Validating

LEMMA CredentialTypes ==
    ASSUME TypeOK, NEW r \in Requests,
           \/ \E by \in {"token", "secret"} : Start(r, by)
           \/ ReadToken(r) \/ FirstHset(r) \/ SecondHset(r) \/ Refuse(r)
           \/ \E p \in Profiles : Resolve(r, p)
    PROVE  TypeOK'
<1>0. pc \in [Requests -> Places] /\ mine \in [Requests -> Held] /\ mine[r] \in Held
  BY TypePlaces DEF TypeOK
<1>1. ASSUME NEW by \in {"token", "secret"}, Start(r, by) PROVE TypeOK'
  <2>1. /\ pc' \in [Requests -> Places] /\ pc'[r] = "check" /\ mine' \in [Requests -> Held]
        /\ \A q \in Requests \ {r} : pc'[q] = pc[q] /\ mine'[q] = mine[q]
    BY <1>0, <1>1, Moves, Keeps DEF Start, Places
  <2>2. /\ pc'[r] \notin Service \cup {"first", "second"}
    BY <2>1 DEF Service
  <2> QED
    BY <1>1, <2>1, <2>2, OneMoves DEF Start, TypeOK, Places, redis, rows, admin, agent
<1>2. CASE ReadToken(r)
  <2>1. /\ pc' \in [Requests -> Places] /\ pc'[r] = "first" /\ mine' \in [Requests -> Held]
        /\ \A q \in Requests \ {r} : pc'[q] = pc[q] /\ mine'[q] = mine[q]
        /\ mine'[r] = [mine[r] EXCEPT !.token = token]
    BY <1>0, <1>2, Moves, Keeps DEF ReadToken, Places, TypeOK
  <2>2. mine'[r].token.mode # "none" /\ pc'[r] \notin Service
    BY <1>0, <1>2, <2>1, HeldFields DEF ReadToken, Service
  <2>3. history' \in History
    BY <1>2 DEF ReadToken, TypeOK, History
  <2> QED
    BY <1>2, <2>1, <2>2, <2>3, OneMoves DEF ReadToken, TypeOK, Places, redis, rows, admin, agent
<1>3. CASE FirstHset(r)
  <2>1. /\ pc' \in [Requests -> Places] /\ pc'[r] = "second" /\ mine' = mine
        /\ \A q \in Requests \ {r} : pc'[q] = pc[q]
    BY <1>0, <1>3, Moves DEF FirstHset, Places
  <2>2. mine'[r].token.mode # "none" /\ pc'[r] \notin Service
    BY <1>3, <2>1 DEF FirstHset, Service, TypeOK, Validating
  <2>3. token' \in Token
    <3>1. mine[r].token.count + 1 \in Nat
      BY <1>0, TokenFields DEF Held
    <3> QED
      BY <1>3, <3>1, Hsets DEF FirstHset, TypeOK
  <2> QED
    BY <1>3, <2>1, <2>2, <2>3, OneMoves DEF FirstHset, TypeOK, Places, rows, admin, agent
<1>4. CASE SecondHset(r)
  <2> DEFINE t == mine[r].token
  <2>1. t \in Token /\ t.mode # "none"
    BY <1>0, <1>4 DEF SecondHset, Held, TypeOK, Validating
  <2>2. token' \in Token
    BY <1>4, Hsets DEF SecondHset, TypeOK
  <2>3. CASE t.mode = "bare"
    <3>1. End(r, "failed") /\ accepted' = accepted
      BY <1>4, <2>3 DEF SecondHset
    <3> HIDE DEF t
    <3> QED
      BY <1>4, <2>2, <3>1, Ordinary DEF SecondHset, TypeOK, Places, Ended, rows, admin, agent
  <2>4. CASE t.mode # "bare"
    <3>1. /\ Go(r, "service") /\ accepted' = accepted + 1
          /\ mine' = [mine EXCEPT ![r].profile = t.profile, ![r].token = NoToken]
      BY <1>4, <2>4 DEF SecondHset
    <3>2. t.profile \in Profiles
      BY <2>1, <2>4, TokenFields
    <3> HIDE DEF t
    <3>3. mine' \in [Requests -> Held] /\ mine'[r].profile = t.profile
          /\ \A q \in Requests \ {r} : mine'[q] = mine[q]
      BY <1>0, <3>1, <3>2, Blanks DEF Held
    <3>4. /\ pc' \in [Requests -> Places] /\ pc'[r] = "service"
          /\ \A q \in Requests \ {r} : pc'[q] = pc[q]
      BY <1>0, <3>1, Moves DEF Places, Service
    <3> QED
      BY <1>4, <2>2, <3>1, <3>2, <3>3, <3>4, OneMoves
      DEF SecondHset, TypeOK, Places, rows, admin, agent
  <2> QED
    BY <2>3, <2>4
<1>5. CASE Refuse(r)
  BY <1>5, Ordinary DEF Refuse, TypeOK, Places, Ended, redis, rows, admin, agent
<1>6. ASSUME NEW p \in Profiles, Resolve(r, p) PROVE TypeOK'
  <2>1. /\ pc' \in [Requests -> Places] /\ pc'[r] = "service" /\ mine' \in [Requests -> Held]
        /\ \A q \in Requests \ {r} : pc'[q] = pc[q] /\ mine'[q] = mine[q]
        /\ mine'[r] = [mine[r] EXCEPT !.profile = p]
    BY <1>0, <1>6, Moves, Keeps DEF Resolve, Places, Service
  <2>2. mine'[r].profile \in Profiles
    BY <1>0, <2>1, HeldFields
  <2> QED
    BY <1>6, <2>1, <2>2, OneMoves DEF Resolve, TypeOK, Places, redis, rows, admin, agent
<1> QED
  BY <1>1, <1>2, <1>3, <1>4, <1>5, <1>6

\* What the service writes.
LEMMA WriteTypes ==
    ASSUME TypeOK, NEW r \in Requests
    PROVE  /\ WriteDevice(r) \in Device /\ WriteDevice(r).key = r
           /\ pc[r] \in Service => Merged(r) \in Policy
           /\ Merged(r) = [profile |-> mine[r].profile, static |-> mine[r].static, linked |-> mine[r].linked]
           /\ Merged(r).profile = mine[r].profile /\ Merged(r).static = mine[r].static
           /\ Merged(r).linked = mine[r].linked
<1>1. mine[r] \in Held
  BY DEF TypeOK
<1>2. dev.outdated \in BOOLEAN /\ mine[r].dev.outdated \in BOOLEAN
  BY <1>1 DEF TypeOK, Held, Device
<1> QED
  BY <1>1, <1>2 DEF TypeOK, Held, Device, Policy, WriteDevice, Merged

LEMMA ServiceTypes ==
    ASSUME TypeOK, NEW r \in Requests,
           \/ GetProfile(r) \/ LoadDevice(r) \/ Upsert(r) \/ ReadLayers(r)
           \/ FindPolicy(r) \/ UpdatePolicy(r) \/ InsertPolicy(r) \/ Reply(r) \/ Fail(r)
    PROVE  TypeOK'
<1>0. /\ pc \in [Requests -> Places] /\ mine \in [Requests -> Held] /\ mine[r] \in Held
      /\ {"load", "upsert", "layers", "find", "update", "insert", "audit"} \subseteq Service
      /\ {"done", "refused", "failed"} \subseteq Ended
  BY TypePlaces DEF TypeOK, Service, Ended
<1>1. ASSUME NEW p \in Service, Go(r, p), pc[r] \in Service,
             mine' \in [Requests -> Held], mine'[r].profile = mine[r].profile,
             \A q \in Requests \ {r} : mine'[q] = mine[q]
      PROVE  /\ pc' \in [Requests -> Places] /\ mine' \in [Requests -> Held]
             /\ \A q \in Requests : /\ pc'[q] \in Service => mine'[q].profile \in Profiles
                                    /\ q \in Validating' => mine'[q].token.mode # "none"
  <2>1. pc' \in [Requests -> Places] /\ pc'[r] = p /\ \A q \in Requests \ {r} : pc'[q] = pc[q]
    BY <1>0, <1>1, Moves DEF Places
  <2>2. mine'[r].profile \in Profiles /\ pc'[r] \notin {"first", "second"}
    BY <1>1, <2>1 DEF TypeOK, Service
  <2> QED
    BY <1>1, <2>1, <2>2, OneMoves
<1>2. CASE GetProfile(r)
  <2>1. history' \in History
    BY <1>2 DEF GetProfile, TypeOK, History, Enrolling
  <2>2. CASE End(r, "refused") \/ End(r, "failed")
    BY <1>0, <1>2, <2>1, <2>2, Ordinary DEF GetProfile, TypeOK, Places, redis, rows, admin, agent
  <2>3. CASE Keep(r, "static", content[mine[r].profile]) /\ Go(r, "load")
    <3>1. mine[r].profile \in Profiles /\ pc[r] \in Service
      BY <1>2 DEF GetProfile, Service, TypeOK
    <3>2. content[mine[r].profile] \in Nat
      BY <3>1 DEF TypeOK
    <3>3. /\ mine' \in [Requests -> Held] /\ \A q \in Requests \ {r} : mine'[q] = mine[q]
          /\ mine'[r].profile = mine[r].profile
      BY <1>0, <2>3, <3>2, Reads
    <3> QED
      BY <1>0, <1>1, <1>2, <2>1, <2>3, <3>1, <3>3
      DEF GetProfile, TypeOK, Places, redis, rows, admin, agent
  <2> QED
    BY <1>2, <2>2, <2>3 DEF GetProfile
<1>3. CASE LoadDevice(r)
  <2>1. /\ mine' \in [Requests -> Held] /\ \A q \in Requests \ {r} : mine'[q] = mine[q]
        /\ mine'[r].profile = mine[r].profile /\ pc[r] \in Service
    BY <1>0, <1>3, Reads DEF LoadDevice, TypeOK
  <2> QED
    BY <1>0, <1>1, <1>3, <2>1 DEF LoadDevice, TypeOK, Places, redis, rows, admin, agent
<1>4. CASE Upsert(r)
  <2>1. dev' \in Device
    BY <1>4, WriteTypes DEF Upsert, TypeOK
  <2>2. CASE End(r, "failed")
    BY <1>0, <1>4, <2>1, <2>2, Ordinary DEF Upsert, TypeOK, Places, redis, admin, agent
  <2>3. CASE Go(r, "layers") /\ Keep(r, "dev", NoDevice)
    <3>1. /\ mine' \in [Requests -> Held] /\ \A q \in Requests \ {r} : mine'[q] = mine[q]
          /\ mine'[r].profile = mine[r].profile /\ pc[r] \in Service
      BY <1>0, <1>4, <2>3, Reads, Blanks DEF Upsert
    <3> QED
      BY <1>0, <1>1, <1>4, <2>1, <2>3, <3>1 DEF Upsert, TypeOK, Places, redis, admin, agent
  <2> QED
    BY <1>4, <2>2, <2>3 DEF Upsert
<1>5. CASE ReadLayers(r)
  <2>1. mine[r].profile \in Profiles /\ pc[r] \in Service
    BY <1>0, <1>5 DEF ReadLayers, TypeOK
  <2>2. content[mine[r].profile] \in Nat
    BY <2>1 DEF TypeOK
  <2>3. /\ mine' \in [Requests -> Held] /\ \A q \in Requests \ {r} : mine'[q] = mine[q]
        /\ mine'[r].profile = mine[r].profile
    BY <1>0, <1>5, <2>2, Reads DEF ReadLayers
  <2> QED
    BY <1>0, <1>1, <1>5, <2>1, <2>3 DEF ReadLayers, TypeOK, Places, redis, rows, admin, agent
<1>6. CASE FindPolicy(r)
  <2>1. \E p \in Service : Go(r, p) /\ UNCHANGED mine /\ pc[r] \in Service
    BY <1>0, <1>6 DEF FindPolicy
  <2> QED
    BY <1>6, <2>1, Ordinary DEF FindPolicy, TypeOK, Places, redis, admin, agent
<1>7. CASE UpdatePolicy(r)
  <2>1. pc[r] \in Service /\ Go(r, "audit") /\ UNCHANGED mine
    BY <1>0, <1>7 DEF UpdatePolicy
  <2>2. history' \in History /\ sync' \in {"no", "stale"} /\ current' = FALSE
    BY <1>7 DEF UpdatePolicy, WrittenBy, Rewritten, TypeOK, History
  <2> QED
    BY <1>0, <1>7, <2>1, <2>2, Ordinary, WriteTypes DEF UpdatePolicy, TypeOK, Places, redis, admin
<1>8. CASE InsertPolicy(r)
  <2>1. CASE pol = NoPolicy /\ dev # NoDevice
    <3>1. pc[r] \in Service /\ Go(r, "audit") /\ UNCHANGED mine /\ pol' = Merged(r)
      BY <1>0, <1>8, <2>1 DEF InsertPolicy
    <3>2. history' \in History /\ sync' \in {"no", "stale"} /\ current' = FALSE
      BY <1>8, <2>1 DEF InsertPolicy, WrittenBy, Rewritten, TypeOK, History
    <3> QED
      BY <1>0, <1>8, <3>1, <3>2, Ordinary, WriteTypes DEF InsertPolicy, TypeOK, Places, redis, admin
  <2>2. CASE ~(pol = NoPolicy /\ dev # NoDevice)
    BY <1>0, <1>8, <2>2, Ordinary DEF InsertPolicy, TypeOK, Places, redis, admin
  <2> QED
    BY <2>1, <2>2
<1>9. CASE Reply(r)
  <2>1. Go(r, "done") /\ UNCHANGED mine /\ pc[r] \in Service
    BY <1>0, <1>9 DEF Reply
  <2> QED
    BY <1>0, <1>9, <2>1, Ordinary DEF Reply, TypeOK, Places, redis, rows, admin
<1>10. CASE Fail(r)
  BY <1>0, <1>10, Ordinary DEF Fail, TypeOK, Places, redis, admin, agent
<1> QED
  BY <1>2, <1>3, <1>4, <1>5, <1>6, <1>7, <1>8, <1>9, <1>10

LEMMA OtherTypes ==
    ASSUME TypeOK,
           \/ \E mode \in {"single", "batch"}, n \in 1 .. MaxDevices, p \in Profiles : Generate(mode, n, p)
           \/ Give \/ Expire \/ RemoveBegin \/ RemovePolicies \/ RemoveDevice
           \/ \E p \in Profiles : EditBegin(p)
           \/ \E gone \in BOOLEAN : EditCommit(gone)
           \/ SyncRead \/ SyncClear \/ Bootstrap \/ Crash \/ UNCHANGED vars
    PROVE  TypeOK'
<1> DEFINE Theirs == \A r \in Requests : /\ pc[r] \in Service => mine[r].profile \in Profiles
                                         /\ r \in Validating => mine[r].token.mode # "none"
<1>0. (UNCHANGED <<pc, mine>> => Theirs') /\ Theirs
  BY DEF TypeOK, Validating
<1>1. ASSUME NEW mode \in {"single", "batch"}, NEW n \in 1 .. MaxDevices, NEW p \in Profiles,
             Generate(mode, n, p)
      PROVE  TypeOK'
  <2>1. token' \in Token
    BY <1>1 DEF Generate, Token
  <2> QED
    BY <1>0, <1>1, <2>1 DEF Generate, TypeOK, rows, admin, agent
<1>2. CASE Give
  BY <1>0, <1>2 DEF Give, TypeOK, rows, admin, agent
<1>3. CASE Expire
  BY <1>0, <1>3, Blanks DEF Expire, TypeOK, rows, admin, agent
<1>4. CASE RemoveBegin
  BY <1>0, <1>4 DEF RemoveBegin, TypeOK, redis, rows, agent
<1>5. CASE RemovePolicies
  BY <1>0, <1>5 DEF RemovePolicies, TypeOK, redis, agent
<1>6. CASE RemoveDevice
  <2>1. dev' \in Device /\ pol' \in Policy /\ sync' \in {"no", "fresh", "stale"} /\ current' \in BOOLEAN
    BY <1>6, Blanks DEF RemoveDevice, Rewritten, TypeOK
  <2> QED
    BY <1>0, <1>6, <2>1 DEF RemoveDevice, TypeOK, redis
<1>7. ASSUME NEW p \in Profiles, EditBegin(p) PROVE TypeOK'
  BY <1>0, <1>7 DEF EditBegin, TypeOK, redis, rows, agent
<1>8. ASSUME NEW gone \in BOOLEAN, EditCommit(gone) PROVE TypeOK'
  <2>1. edit \in Profiles
    BY <1>8 DEF EditCommit, TypeOK
  <2>2. content' \in [Profiles -> Nat] /\ active' \subseteq Profiles /\ edit' = Nobody
    BY <1>8, <2>1 DEF EditCommit, TypeOK
  <2>3. dev' \in Device
    <3>1. dev' = [dev EXCEPT !.outdated = dev.outdated \/ pol.profile = edit]
      BY <1>8 DEF EditCommit, Marked
    <3>2. (dev.outdated \/ pol.profile = edit) \in BOOLEAN
      OBVIOUS
    <3> QED
      BY <3>1, <3>2 DEF TypeOK, Device
  <2>4. history' \in History
    BY <1>8 DEF EditCommit, TypeOK, History, Enrolling
  <2> QED
    BY <1>0, <1>8, <2>2, <2>3, <2>4 DEF EditCommit, TypeOK, redis, agent
<1>9. CASE SyncRead
  BY <1>0, <1>9 DEF SyncRead, TypeOK, redis, rows, admin
<1>10. CASE SyncClear
  <2>1. dev' \in Device /\ history' \in History
    BY <1>10 DEF SyncClear, TypeOK, Device, History
  <2> QED
    BY <1>0, <1>10, <2>1 DEF SyncClear, TypeOK, redis, admin
<1>11. CASE Bootstrap
  BY <1>0, <1>11 DEF Bootstrap, TypeOK, redis, rows, admin
<1>12. CASE Crash
  <2>1. pc' \in [Requests -> Places]
    BY <1>12, TypePlaces DEF Crash, Places, Ended
  <2>2. \A r \in Requests : pc'[r] = "lost" \/ (pc'[r] = pc[r] /\ pc[r] \in Ended \cup {"idle"})
    BY <1>12, TypePlaces DEF Crash
  <2>3. mine' \in [Requests -> Held]
    BY <1>12, Blanks DEF Crash, TypeOK
  <2>4. Theirs'
    BY <2>2 DEF Validating, Ended, Service
  <2> QED
    BY <1>12, <2>1, <2>3, <2>4 DEF Crash, TypeOK, Places, redis, agent
<1>13. CASE UNCHANGED vars
  BY <1>0, <1>13 DEF vars, TypeOK
<1> QED
  BY <1>1, <1>2, <1>3, <1>4, <1>5, <1>6, <1>7, <1>8, <1>9, <1>10, <1>11, <1>12, <1>13

LEMMA TypeStep == TypeOK /\ [Next]_vars => TypeOK'
BY CredentialTypes, ServiceTypes, OtherTypes DEF Next, Step

-----------------------------------------------------------------------------
(* The course of a request, and what the others do to it.                    *)

Same(r) == mine'[r].profile = mine[r].profile /\ mine'[r].static = mine[r].static
           /\ mine'[r].linked = mine[r].linked

\* From the first message to the service: nothing of the policy is in hand.
LEMMA EarlyCourse ==
    ASSUME TypeOK, NEW r \in Requests
    PROVE  /\ \A by \in {"token", "secret"} : Start(r, by) =>
                 pc[r] = "idle" /\ pc'[r] = "check" /\ mine'[r].by = by
           /\ ReadToken(r) => pc[r] = "check" /\ pc'[r] = "first" /\ mine'[r].token = token
           /\ FirstHset(r) => pc[r] = "first" /\ pc'[r] = "second" /\ mine' = mine
           /\ SecondHset(r) =>
                 /\ pc[r] = "second"
                 /\ \/ pc'[r] = "failed" /\ accepted' = accepted
                    \/ pc'[r] = "service" /\ accepted' = accepted + 1
           /\ Refuse(r) => pc[r] = "check" /\ pc'[r] = "refused"
           /\ \A p \in Profiles : Resolve(r, p) => pc[r] = "check" /\ pc'[r] = "service"
           /\ (\/ \E by \in {"token", "secret"} : Start(r, by)
               \/ ReadToken(r) \/ FirstHset(r) \/ SecondHset(r) \/ Refuse(r)
               \/ \E p \in Profiles : Resolve(r, p))
                 => \A q \in Requests \ {r} : pc'[q] = pc[q] /\ mine'[q] = mine[q]
<1>0. /\ pc \in [Requests -> Places] /\ mine \in [Requests -> Held] /\ mine[r] \in Held
      /\ {"check", "first", "second", "refused", "failed", "service"} \subseteq Places
  BY TypePlaces DEF TypeOK, Places, Service, Ended
<1> DEFINE Others == \A q \in Requests \ {r} : pc'[q] = pc[q] /\ mine'[q] = mine[q]
<1>1. ASSUME NEW by \in {"token", "secret"}, Start(r, by)
      PROVE  pc[r] = "idle" /\ pc'[r] = "check" /\ mine'[r].by = by /\ Others
  <2>1. mine'[r] = [mine[r] EXCEPT !.by = by]
    BY <1>0, <1>1, Keeps DEF Start
  <2>2. mine'[r].by = by
    BY <1>0, <2>1 DEF Held
  <2> QED
    BY <1>0, <1>1, <2>2, Moves, Keeps DEF Start
<1>2. ASSUME ReadToken(r)
      PROVE  pc[r] = "check" /\ pc'[r] = "first" /\ mine'[r].token = token /\ Others
  <2>1. mine'[r] = [mine[r] EXCEPT !.token = token] /\ \A q \in Requests \ {r} : mine'[q] = mine[q]
    BY <1>0, <1>2, Keeps DEF ReadToken, TypeOK
  <2>2. mine'[r].token = token
    BY <1>0, <2>1, HeldFields
  <2> QED
    BY <1>0, <1>2, <2>1, <2>2, Moves DEF ReadToken
<1>3. ASSUME FirstHset(r) PROVE pc[r] = "first" /\ pc'[r] = "second" /\ mine' = mine /\ Others
  BY <1>0, <1>3, Moves DEF FirstHset
<1>4. ASSUME SecondHset(r)
      PROVE  /\ pc[r] = "second" /\ Others
             /\ \/ pc'[r] = "failed" /\ accepted' = accepted
                \/ pc'[r] = "service" /\ accepted' = accepted + 1
  <2>1. CASE mine[r].token.mode = "bare"
    BY <1>0, <1>4, <2>1, Endings DEF SecondHset
  <2>2. CASE mine[r].token.mode # "bare"
    <3>1. /\ pc[r] = "second" /\ Go(r, "service") /\ accepted' = accepted + 1
          /\ mine' = [mine EXCEPT ![r].profile = mine[r].token.profile, ![r].token = NoToken]
      BY <1>4, <2>2 DEF SecondHset
    <3>2. \A q \in Requests \ {r} : mine'[q] = mine[q]
      BY <1>0, <3>1
    <3> QED
      BY <1>0, <3>1, <3>2, Moves
  <2> QED
    BY <2>1, <2>2
<1>5. ASSUME Refuse(r) PROVE pc[r] = "check" /\ pc'[r] = "refused" /\ Others
  BY <1>0, <1>5, Endings DEF Refuse
<1>6. ASSUME NEW p \in Profiles, Resolve(r, p)
      PROVE  pc[r] = "check" /\ pc'[r] = "service" /\ Others
  BY <1>0, <1>6, Moves, Keeps DEF Resolve
<1> QED
  BY <1>1, <1>2, <1>3, <1>4, <1>5, <1>6

\* In the service.
LEMMA LateCourse ==
    ASSUME TypeOK, NEW r \in Requests
    PROVE  /\ GetProfile(r) =>
                 /\ pc[r] = "service"
                 /\ \/ pc'[r] \in {"refused", "failed"} /\ history' = history
                    \/ /\ pc'[r] = "load" /\ mine'[r].profile = mine[r].profile
                       /\ mine'[r].static = content[mine[r].profile]
                       /\ history' = [history EXCEPT !.crossed =
                                        @ \cup IF Enrolling = {r} THEN {} ELSE Enrolling]
           /\ LoadDevice(r) => pc[r] = "load" /\ pc'[r] = "upsert" /\ Same(r)
           /\ Upsert(r) =>
                 pc[r] = "upsert" /\ (pc'[r] = "failed" \/ (pc'[r] = "layers" /\ Same(r)))
           /\ ReadLayers(r) =>
                 /\ pc[r] = "layers" /\ pc'[r] = "find" /\ mine'[r].profile = mine[r].profile
                 /\ mine'[r].static = mine[r].static
                 /\ mine'[r].linked = content[mine[r].profile]
           /\ FindPolicy(r) => pc[r] = "find" /\ pc'[r] \in {"update", "insert"} /\ mine' = mine
           /\ UpdatePolicy(r) => pc[r] = "update" /\ pc'[r] = "audit" /\ mine' = mine
           /\ InsertPolicy(r) => pc[r] = "insert" /\ (pc'[r] = "failed" \/ (pc'[r] = "audit" /\ mine' = mine))
           /\ Reply(r) => pc[r] = "audit" /\ pc'[r] = "done" /\ mine' = mine
           /\ Fail(r) => pc'[r] = "failed"
           /\ (\/ GetProfile(r) \/ LoadDevice(r) \/ Upsert(r) \/ ReadLayers(r) \/ FindPolicy(r)
               \/ UpdatePolicy(r) \/ InsertPolicy(r) \/ Reply(r) \/ Fail(r))
                 => \A q \in Requests \ {r} : pc'[q] = pc[q] /\ mine'[q] = mine[q]
<1>0. /\ pc \in [Requests -> Places] /\ mine \in [Requests -> Held] /\ mine[r] \in Held
      /\ {"refused", "failed", "done"} \cup Service \subseteq Places
      /\ {"load", "upsert", "layers", "find", "update", "insert", "audit"} \subseteq Places
  BY TypePlaces DEF TypeOK, Places, Service, Ended
<1> DEFINE Others == \A q \in Requests \ {r} : pc'[q] = pc[q] /\ mine'[q] = mine[q]
<1>1. ASSUME GetProfile(r)
      PROVE  /\ Others /\ pc[r] = "service"
             /\ \/ pc'[r] \in {"refused", "failed"} /\ history' = history
                \/ /\ pc'[r] = "load" /\ mine'[r].profile = mine[r].profile
                   /\ mine'[r].static = content[mine[r].profile]
                   /\ history' = [history EXCEPT !.crossed =
                                    @ \cup IF Enrolling = {r} THEN {} ELSE Enrolling]
  <2>1. CASE (End(r, "refused") \/ End(r, "failed")) /\ history' = history
    BY <1>0, <1>1, <2>1, Endings DEF GetProfile
  <2>2. CASE /\ Keep(r, "static", content[mine[r].profile]) /\ Go(r, "load")
             /\ history' = [history EXCEPT !.crossed =
                              @ \cup IF Enrolling = {r} THEN {} ELSE Enrolling]
    <3>1. content[mine[r].profile] \in Nat
      BY <1>1 DEF GetProfile, TypeOK, Service
    <3>2. /\ \A q \in Requests \ {r} : mine'[q] = mine[q]
          /\ mine'[r].profile = mine[r].profile /\ mine'[r].static = content[mine[r].profile]
      BY <1>0, <2>2, <3>1, Reads
    <3> QED
      BY <1>0, <1>1, <2>2, <3>2, Moves DEF GetProfile
  <2> QED
    BY <1>1, <2>1, <2>2 DEF GetProfile
<1>2. ASSUME LoadDevice(r) PROVE Others /\ pc[r] = "load" /\ pc'[r] = "upsert" /\ Same(r)
  <2>1. Same(r) /\ \A q \in Requests \ {r} : mine'[q] = mine[q]
    BY <1>0, <1>2, Reads DEF LoadDevice, TypeOK, Same
  <2> QED
    BY <1>0, <1>2, <2>1, Moves DEF LoadDevice
<1>3. ASSUME Upsert(r)
      PROVE  Others /\ pc[r] = "upsert" /\ (pc'[r] = "failed" \/ (pc'[r] = "layers" /\ Same(r)))
  <2>1. CASE End(r, "failed")
    BY <1>0, <1>3, <2>1, Endings DEF Upsert
  <2>2. CASE Go(r, "layers") /\ Keep(r, "dev", NoDevice)
    <3>1. Same(r) /\ \A q \in Requests \ {r} : mine'[q] = mine[q]
      BY <1>0, <2>2, Reads, Blanks DEF Same
    <3> QED
      BY <1>0, <1>3, <2>2, <3>1, Moves DEF Upsert
  <2> QED
    BY <1>3, <2>1, <2>2 DEF Upsert
<1>4. ASSUME ReadLayers(r)
      PROVE  /\ Others /\ pc[r] = "layers" /\ pc'[r] = "find" /\ mine'[r].profile = mine[r].profile
             /\ mine'[r].static = mine[r].static /\ mine'[r].linked = content[mine[r].profile]
  <2>1. content[mine[r].profile] \in Nat
    BY <1>4 DEF ReadLayers, TypeOK, Service
  <2>2. /\ \A q \in Requests \ {r} : mine'[q] = mine[q]
        /\ mine'[r].profile = mine[r].profile
        /\ mine'[r].static = mine[r].static /\ mine'[r].linked = content[mine[r].profile]
    BY <1>0, <1>4, <2>1, Reads DEF ReadLayers
  <2> QED
    BY <1>0, <1>4, <2>2, Moves DEF ReadLayers
<1>5. ASSUME FindPolicy(r)
      PROVE  Others /\ pc[r] = "find" /\ pc'[r] \in {"update", "insert"} /\ mine' = mine
  BY <1>0, <1>5, Moves DEF FindPolicy
<1>6. ASSUME UpdatePolicy(r) PROVE Others /\ pc[r] = "update" /\ pc'[r] = "audit" /\ mine' = mine
  BY <1>0, <1>6, Moves DEF UpdatePolicy
<1>7. ASSUME InsertPolicy(r)
      PROVE  Others /\ pc[r] = "insert" /\ (pc'[r] = "failed" \/ (pc'[r] = "audit" /\ mine' = mine))
  <2>1. CASE Go(r, "audit") /\ mine' = mine
    BY <1>0, <1>7, <2>1, Moves DEF InsertPolicy
  <2>2. CASE End(r, "failed")
    BY <1>0, <1>7, <2>2, Endings DEF InsertPolicy
  <2> QED
    BY <1>7, <2>1, <2>2 DEF InsertPolicy
<1>8. ASSUME Reply(r) PROVE Others /\ pc[r] = "audit" /\ pc'[r] = "done" /\ mine' = mine
  BY <1>0, <1>8, Moves DEF Reply
<1>9. ASSUME Fail(r) PROVE Others /\ pc'[r] = "failed"
  BY <1>0, <1>9, Endings DEF Fail
<1> QED
  BY <1>1, <1>2, <1>3, <1>4, <1>5, <1>6, <1>7, <1>8, <1>9

\* A restart loses every request that is under way.
LEMMA CrashCourse ==
    ASSUME TypeOK, Crash, NEW r \in Requests
    PROVE  \/ pc'[r] = "lost" /\ mine'[r] = Blank
           \/ pc'[r] = pc[r] /\ mine'[r] = mine[r] /\ pc[r] \in Ended \cup {"idle"}
BY TypePlaces DEF TypeOK, Crash

Outside ==
    \/ \E mode \in {"single", "batch"}, n \in 1 .. MaxDevices, p \in Profiles : Generate(mode, n, p)
    \/ Give \/ Expire \/ RemoveBegin \/ \E p \in Profiles : EditBegin(p)
    \/ SyncRead \/ Bootstrap \/ UNCHANGED vars

\* What these leave alone.
LEMMA OutsideLeaves ==
    ASSUME Outside
    PROVE  /\ UNCHANGED <<pc, mine, rows, content>>
           /\ history' = history
BY DEF Outside, Generate, Give, Expire, RemoveBegin, EditBegin, SyncRead, Bootstrap, vars, rows, admin

-----------------------------------------------------------------------------
(* The rows and the lock.                                                  *)

LEMMA RowsStep == TypeOK /\ RowsHold /\ [Next]_vars => RowsHold'
<1> SUFFICES ASSUME TypeOK, RowsHold, [Next]_vars PROVE RowsHold'
  OBVIOUS
<1>0. /\ \A r \in Requests : lock = r <=> pc[r] = "update"
      /\ lock \in Requests \cup {Nobody, Remover}
  BY DEF RowsHold, TypeOK
<1>1. ASSUME UNCHANGED rows, removal' = removal \/ lock # Remover,
             \A r \in Requests : pc'[r] = "update" <=> pc[r] = "update"
      PROVE  RowsHold'
  BY <1>1 DEF RowsHold, rows
<1>2. ASSUME NEW r \in Requests,
             \/ \E by \in {"token", "secret"} : Start(r, by)
             \/ ReadToken(r) \/ FirstHset(r) \/ SecondHset(r) \/ Refuse(r)
             \/ \E p \in Profiles : Resolve(r, p)
      PROVE  RowsHold'
  <2>1. \A q \in Requests : pc'[q] = "update" <=> pc[q] = "update"
    BY <1>2, EarlyCourse
  <2>2. UNCHANGED rows /\ removal' = removal
    BY <1>2 DEF Start, ReadToken, FirstHset, SecondHset, Refuse, Resolve, rows, admin
  <2> QED
    BY <1>1, <2>1, <2>2
<1>3. ASSUME NEW r \in Requests, GetProfile(r) \/ LoadDevice(r) \/ ReadLayers(r) \/ Reply(r)
      PROVE  RowsHold'
  <2>1. \A q \in Requests : pc'[q] = "update" <=> pc[q] = "update"
    BY <1>3, LateCourse
  <2>2. UNCHANGED rows /\ removal' = removal
    BY <1>3 DEF GetProfile, LoadDevice, ReadLayers, Reply, rows, admin
  <2> QED
    BY <1>1, <2>1, <2>2
<1>4. ASSUME NEW r \in Requests, Upsert(r) PROVE RowsHold'
  <2>1. \A q \in Requests : pc'[q] = "update" <=> pc[q] = "update"
    BY <1>4, LateCourse
  <2>2. dev' = dev \/ dev'.key # Nobody
    BY <1>4, WriteTypes, Ids DEF Upsert
  <2>3. UNCHANGED <<pol, lock, removal>>
    BY <1>4 DEF Upsert, admin
  <2> QED
    BY <2>1, <2>2, <2>3, Blanks DEF RowsHold
<1>5. ASSUME NEW r \in Requests, FindPolicy(r) PROVE RowsHold'
  <2>1. CASE pol # NoPolicy /\ lock = Nobody
    <3>1. lock' = r /\ pc'[r] = "update" /\ \A q \in Requests \ {r} : pc'[q] = pc[q]
      BY <1>5, <2>1, TypePlaces, Moves DEF FindPolicy, Places, Service
    <3>2. \A q \in Requests : lock' = q <=> pc'[q] = "update"
      BY <1>0, <2>1, <3>1, Ids
    <3> QED
      BY <1>5, <2>1, <3>1, <3>2, Ids DEF FindPolicy, RowsHold, admin
  <2>2. CASE ~(pol # NoPolicy /\ lock = Nobody)
    <3>1. lock' = lock /\ pc'[r] = "insert" /\ \A q \in Requests \ {r} : pc'[q] = pc[q]
      BY <1>5, <2>2, TypePlaces, Moves DEF FindPolicy, Places, Service
    <3>2. pc[r] = "find"
      BY <1>5 DEF FindPolicy
    <3> QED
      BY <1>1, <1>5, <3>1, <3>2 DEF FindPolicy, rows, admin
  <2> QED
    BY <2>1, <2>2
<1>6. ASSUME NEW r \in Requests, UpdatePolicy(r) PROVE RowsHold'
  <2>1. pc[r] = "update" /\ pc'[r] = "audit" /\ \A q \in Requests \ {r} : pc'[q] = pc[q]
    BY <1>6, LateCourse
  <2>2. lock = r /\ lock' = Nobody /\ \A q \in Requests : pc'[q] # "update"
    BY <1>0, <1>6, <2>1 DEF UpdatePolicy
  <2>3. dev' = dev /\ dev # NoDevice /\ removal' = removal
    BY <1>6, <2>2, Ids DEF UpdatePolicy, RowsHold, admin
  <2> QED
    BY <2>2, <2>3, Ids DEF RowsHold
<1>7. ASSUME NEW r \in Requests, InsertPolicy(r) PROVE RowsHold'
  <2>1. \A q \in Requests : pc'[q] = "update" <=> pc[q] = "update"
    BY <1>7, LateCourse
  <2>2. lock = Nobody /\ UNCHANGED <<dev, lock, removal>> /\ (pol' = pol \/ dev # NoDevice)
    BY <1>7 DEF InsertPolicy, admin
  <2> QED
    BY <2>1, <2>2 DEF RowsHold
<1>8. ASSUME NEW r \in Requests, Fail(r) PROVE RowsHold'
  <2>1. pc'[r] = "failed" /\ \A q \in Requests \ {r} : pc'[q] = pc[q]
    BY <1>8, LateCourse
  <2>2. UNCHANGED <<dev, pol, removal>> /\ lock' = IF lock = r THEN Nobody ELSE lock
    BY <1>8 DEF Fail, admin
  <2>3. \A q \in Requests : lock' = q <=> pc'[q] = "update"
    BY <1>0, <2>1, <2>2, Ids
  <2> QED
    BY <2>2, <2>3, Ids DEF RowsHold
<1>9. CASE Outside
  <2>1. UNCHANGED <<pc, rows>>
    BY <1>9, OutsideLeaves
  <2>2. removal' = removal \/ removal = "no"
    BY <1>9 DEF Outside, Generate, Give, Expire, RemoveBegin, EditBegin, SyncRead, Bootstrap, vars, admin
  <2>3. removal = "no" => lock # Remover
    BY DEF RowsHold
  <2> QED
    BY <1>1, <2>1, <2>2, <2>3
<1>10. CASE RemovePolicies
  BY <1>0, <1>10, Ids DEF RemovePolicies, RowsHold
<1>11. CASE RemoveDevice
  <2>1. pc' = pc /\ removal = "device" /\ lock' = IF lock = Remover THEN Nobody ELSE lock
    BY <1>11 DEF RemoveDevice
  <2>2. \A q \in Requests : lock' = q <=> pc'[q] = "update"
    BY <1>0, <2>1, Ids
  <2>3. CASE lock = Remover \/ pol = NoPolicy
    <3>1. dev' = NoDevice /\ pol' = NoPolicy /\ lock' = Nobody
      BY <1>11, <2>1, <2>3 DEF RemoveDevice, RowsHold
    <3> QED
      BY <2>2, <3>1, Ids DEF RowsHold
  <2>4. CASE ~(lock = Remover \/ pol = NoPolicy)
    BY <1>11, <2>1, <2>2, <2>4 DEF RemoveDevice, RowsHold
  <2> QED
    BY <2>3, <2>4
<1>12. ASSUME NEW gone \in BOOLEAN, EditCommit(gone) PROVE RowsHold'
  <2>1. UNCHANGED <<pc, pol, lock, removal>> /\ edit \in Profiles
    BY <1>12 DEF EditCommit, TypeOK
  <2>2. dev' = [dev EXCEPT !.outdated = dev.outdated \/ pol.profile = edit]
    BY <1>12 DEF EditCommit, Marked
  <2>3. dev'.key = dev.key
    BY <2>2 DEF TypeOK, Device
  <2>4. ASSUME dev = NoDevice PROVE dev' = NoDevice
    <3>1. pol.profile # edit /\ ~dev.outdated
      BY <2>1, <2>4, Blanks, NobodyIsNoProfile DEF RowsHold
    <3>2. dev'.outdated = FALSE
      BY <2>2, <3>1 DEF TypeOK, Device
    <3>3. dev' \in Device /\ NoDevice \in Device
      BY TypeStep, Blanks DEF TypeOK
    <3> QED
      BY <2>3, <2>4, <3>2, <3>3, Blanks DEF Device
  <2>5. dev'.key = Nobody => dev' = NoDevice
    BY <2>3, <2>4 DEF RowsHold
  <2>6. dev # NoDevice => dev' # NoDevice
    BY <2>3, Blanks DEF RowsHold
  <2> QED
    BY <2>1, <2>5, <2>6 DEF RowsHold
<1>13. CASE SyncClear
  <2>1. dev' = [dev EXCEPT !.outdated = FALSE] /\ UNCHANGED <<pc, pol, lock, removal>>
    BY <1>13 DEF SyncClear, admin
  <2>2. dev'.key = dev.key /\ ~dev'.outdated
    BY <2>1 DEF TypeOK, Device
  <2>3. ASSUME dev = NoDevice PROVE dev' = NoDevice
    <3>1. dev' \in Device /\ NoDevice \in Device
      BY TypeStep, Blanks DEF TypeOK
    <3> QED
      BY <2>2, <2>3, <3>1, Blanks DEF Device
  <2>4. dev # NoDevice => dev' # NoDevice
    BY <2>2, Blanks DEF RowsHold
  <2>5. dev'.key = Nobody => dev' = NoDevice
    BY <2>2, <2>3 DEF RowsHold
  <2> QED
    BY <2>1, <2>4, <2>5 DEF RowsHold
<1>14. CASE Crash
  <2>1. \A r \in Requests : pc'[r] # "update"
    BY <1>14, CrashCourse DEF Ended
  <2> QED
    BY <1>14, <2>1, Ids DEF Crash, RowsHold
<1> QED
  BY <1>2, <1>3, <1>4, <1>5, <1>6, <1>7, <1>8, <1>9, <1>10, <1>11, <1>12, <1>13, <1>14
  DEF Next, Step, Outside

-----------------------------------------------------------------------------
(* The token.                                                              *)

\* What no step on the token changes: a token stays within its budget while
\* requests end, or do what is not validation.
Calm ==
    /\ UNCHANGED redis /\ history'.raced = history.raced
    /\ \A r \in Requests : /\ r \in Validating' => pc'[r] = pc[r] /\ mine'[r] = mine[r]
                           /\ pc'[r] = "check" =>
                                 \/ mine'[r].by = "token" => issued = "given"
                                 \/ pc'[r] = pc[r] /\ mine'[r] = mine[r]

LEMMA CalmKeeps == BudgetLeft /\ TokenBudget /\ Calm => BudgetLeft' /\ TokenBudget'
<1> SUFFICES ASSUME BudgetLeft, TokenBudget, Calm PROVE BudgetLeft' /\ TokenBudget'
  OBVIOUS
<1>1. token' = token /\ issued' = issued /\ accepted' = accepted /\ history'.raced = history.raced
  BY DEF Calm, redis
<1>2. Validating' \subseteq Validating /\ \A r \in Validating' : pc'[r] = pc[r] /\ mine'[r] = mine[r]
  BY DEF Calm, Validating
<1>3. ASSUME Real, ~history.raced, NEW r \in Validating' PROVE HalfWritten(r)'
  <2>1. HalfWritten(r)
    BY <1>2, <1>3 DEF BudgetLeft
  <2> QED
    BY <1>1, <1>2, <1>3, <2>1 DEF HalfWritten
<1>4. issued # "given" => /\ accepted = 0 /\ Validating' = {}
                          /\ \A r \in Requests : pc'[r] = "check" => mine'[r].by # "token"
  BY <1>2 DEF BudgetLeft, Calm
<1> QED
  BY <1>1, <1>2, <1>3, <1>4 DEF BudgetLeft, TokenBudget, Real

LEMMA BudgetStep ==
    TypeOK /\ BudgetLeft /\ TokenBudget /\ [Next]_vars => BudgetLeft' /\ TokenBudget'
<1> SUFFICES ASSUME TypeOK, BudgetLeft, TokenBudget, [Next]_vars PROVE BudgetLeft' /\ TokenBudget'
  OBVIOUS
<1>0. token \in Token /\ accepted \in Nat /\ history \in History /\ token' \in Token
  BY TypeStep DEF TypeOK
<1>1. ASSUME NEW mode \in {"single", "batch"}, NEW n \in 1 .. MaxDevices, NEW p \in Profiles,
             Generate(mode, n, p)
      PROVE  BudgetLeft' /\ TokenBudget'
  <2>1. /\ token'.mode = mode /\ token'.max = n /\ ~token'.used /\ issued' = "stored"
        /\ (mode = "single" => n = 1) /\ n > 0
        /\ UNCHANGED <<pc, mine, accepted, history>> /\ issued = "no"
    BY <1>1, EnrollmentBounds DEF Generate
  <2>2. /\ accepted' = 0 /\ Validating' = {} /\ token'.count \in Nat
        /\ \A r \in Requests : pc'[r] = "check" => mine'[r].by # "token"
    BY <1>0, <2>1, TokenFields DEF BudgetLeft, Validating
  <2> QED
    BY <2>1, <2>2 DEF BudgetLeft, TokenBudget, Real
<1>2. CASE Give
  <2>1. token' = token /\ issued' = "given" /\ UNCHANGED <<pc, mine, accepted, history>>
    BY <1>2 DEF Give
  <2>2. Validating' = Validating /\ \A r \in Validating : HalfWritten(r)' = HalfWritten(r)
    BY <2>1 DEF Validating, HalfWritten
  <2> QED
    BY <2>1, <2>2 DEF BudgetLeft, TokenBudget, Real
<1>3. CASE Expire
  <2>1. token'.mode = "none" /\ issued' = "given" /\ UNCHANGED <<pc, mine, accepted, history>>
    BY <1>3, Blanks DEF Expire
  <2>2. Validating' = Validating
    BY <2>1 DEF Validating
  <2> QED
    BY <2>1, <2>2 DEF BudgetLeft, TokenBudget, Real
<1>4. ASSUME NEW r \in Requests, ReadToken(r) PROVE BudgetLeft' /\ TokenBudget'
  <2>1. /\ pc[r] = "check" /\ pc'[r] = "first" /\ mine'[r].token = token
        /\ \A q \in Requests \ {r} : pc'[q] = pc[q] /\ mine'[q] = mine[q]
    BY <1>4, EarlyCourse
  <2>2. /\ UNCHANGED <<token, issued, accepted>> /\ ~token.used /\ mine[r].by = "token"
        /\ history'.raced = (history.raced \/ Validating # {})
    BY <1>0, <1>4 DEF ReadToken, redis, History
  <2>3. issued = "given" /\ Validating' = Validating \cup {r}
    BY <2>1, <2>2 DEF BudgetLeft, Validating
  <2>4. ASSUME Real, ~history'.raced, NEW q \in Validating' PROVE HalfWritten(q)'
    BY <2>1, <2>2, <2>3, <2>4 DEF BudgetLeft, HalfWritten
  <2> QED
    BY <2>2, <2>3, <2>4 DEF BudgetLeft, TokenBudget, Real
<1>5. ASSUME NEW r \in Requests, FirstHset(r) PROVE BudgetLeft' /\ TokenBudget'
  <2> DEFINE t == mine[r].token
  <2>1. /\ pc[r] = "first" /\ pc'[r] = "second" /\ mine' = mine
        /\ \A q \in Requests \ {r} : pc'[q] = pc[q]
    BY <1>5, EarlyCourse
  <2>2. UNCHANGED <<issued, accepted, history>> /\ t \in Token /\ t.count + 1 \in Nat
    BY <1>5, TokenFields DEF FirstHset, TypeOK, Held
  <2>3. IF OneUse(t) THEN Hset("used", TRUE) ELSE Hset("count", t.count + 1)
    BY <1>5 DEF FirstHset
  <2> HIDE DEF t
  <2>4. /\ token'.max = token.max /\ token'.mode = IF token.mode = "none" THEN "bare" ELSE token.mode
        /\ IF t.mode # "batch" THEN token'.used /\ token'.count = token.count
           ELSE token'.count = t.count + 1 /\ token'.used = token.used
    BY <1>0, <2>2, <2>3, Hsets DEF OneUse
  <2>5. r \in Validating /\ Validating' = Validating /\ issued = "given"
    BY <2>1 DEF BudgetLeft, Validating
  <2>6. ASSUME Real', ~history.raced
        PROVE  Real /\ t = token /\ ~token.used /\ accepted < token.max /\ Validating = {r}
    <3>1. Real
      BY <2>4, <2>6 DEF Real
    <3>2. HalfWritten(r) /\ Validating = {r}
      BY <2>5, <2>6, <3>1 DEF BudgetLeft
    <3> QED
      BY <2>1, <3>1, <3>2 DEF HalfWritten, t
  <2>7. ASSUME Real', ~history.raced, NEW q \in Validating' PROVE HalfWritten(q)'
    <3>1. q = r /\ mine'[q].token = t /\ t = token /\ ~token.used /\ accepted < token.max
      BY <2>1, <2>5, <2>6, <2>7 DEF t
    <3>2. t.mode = "batch" => accepted <= t.count
      BY <2>6, <2>7, <3>1 DEF BudgetLeft
    <3>3. t.mode = token'.mode /\ t.max = token'.max
      BY <2>4, <2>6, <2>7, <3>1 DEF Real
    <3> QED
      BY <2>1, <2>2, <2>4, <3>1, <3>2, <3>3 DEF HalfWritten
  <2>8. ASSUME Real', ~history.raced, ~token'.used
        PROVE  accepted < token'.max /\ (token'.mode = "batch" => accepted <= token'.count)
    <3>1. t.mode = "batch" /\ t = token /\ accepted < token.max
      BY <2>4, <2>6, <2>8
    <3>2. accepted <= t.count /\ t.count \in Nat
      BY <1>0, <2>2, <2>6, <2>8, <3>1, TokenFields DEF BudgetLeft
    <3> QED
      BY <1>0, <2>4, <3>1, <3>2
  <2> QED
    BY <2>2, <2>4, <2>5, <2>6, <2>7, <2>8 DEF BudgetLeft, TokenBudget, Real
<1>6. ASSUME NEW r \in Requests, SecondHset(r) PROVE BudgetLeft' /\ TokenBudget'
  <2> DEFINE t == mine[r].token
  <2>1. /\ pc[r] = "second" /\ pc'[r] \in {"failed", "service"}
        /\ accepted' \in {accepted, accepted + 1}
        /\ \A q \in Requests \ {r} : pc'[q] = pc[q] /\ mine'[q] = mine[q]
    BY <1>6, EarlyCourse
  <2>2. UNCHANGED <<issued, history>> /\ t \in Token
    BY <1>6 DEF SecondHset, TypeOK, Held
  <2>3. \/ OneUse(t) /\ Hset("count", 1)
        \/ ~OneUse(t) /\ Full(t) /\ Hset("used", TRUE)
        \/ ~OneUse(t) /\ ~Full(t) /\ UNCHANGED token
    BY <1>6 DEF SecondHset
  <2> HIDE DEF t
  <2>4. /\ token'.max = token.max
        /\ token'.mode = token.mode \/ (token.mode = "none" /\ token'.mode = "bare")
        /\ t.mode # "batch" => token'.used = token.used
        /\ t.mode = "batch" => token'.count = token.count /\ (t.count + 1 >= t.max => token'.used)
    BY <1>0, <2>2, <2>3, Hsets DEF OneUse, Full
  <2>5. r \in Validating /\ Validating' = Validating \ {r} /\ issued = "given"
    BY <2>1 DEF BudgetLeft, Validating
  <2>6. ASSUME Real', ~history.raced
        PROVE  /\ Real /\ accepted < token.max /\ Validating = {r} /\ t.mode = token.mode
               /\ t.max = token.max
               /\ IF t.mode = "batch" THEN token.count = t.count + 1 /\ accepted <= t.count
                  ELSE token.used
    <3>1. Real /\ Validating = {r}
      BY <2>4, <2>5, <2>6 DEF Real, BudgetLeft
    <3>2. HalfWritten(r)
      BY <2>6, <3>1 DEF BudgetLeft
    <3> QED
      BY <2>1, <3>1, <3>2 DEF HalfWritten, t
  <2>7. t.count \in Nat /\ t.max \in Nat /\ token.max \in Nat
    BY <1>0, <2>2, TokenFields
  <2>8. ASSUME Real', ~history.raced
        PROVE  /\ accepted' <= token'.max /\ Validating' = {}
               /\ ~token'.used =>
                     accepted' < token'.max /\ (token'.mode = "batch" => accepted' <= token'.count)
    <3>1. accepted' <= token'.max /\ Validating' = {}
      BY <1>0, <2>1, <2>4, <2>5, <2>6, <2>7, <2>8
    <3>2. CASE t.mode = "batch"
      BY <1>0, <2>1, <2>4, <2>6, <2>7, <2>8, <3>1, <3>2
    <3>3. CASE t.mode # "batch"
      BY <2>4, <2>6, <2>8, <3>1, <3>3
    <3> QED
      BY <3>1, <3>2, <3>3
  <2>9. \A q, s \in Validating' : ~history.raced => q = s
    BY <2>5 DEF BudgetLeft
  <2> QED
    BY <2>2, <2>4, <2>5, <2>8, <2>9 DEF BudgetLeft, TokenBudget, Real
<1>7. ASSUME NEW r \in Requests, NEW by \in {"token", "secret"}, Start(r, by) PROVE Calm
  <2>1. /\ pc'[r] = "check" /\ mine'[r].by = by
        /\ \A q \in Requests \ {r} : pc'[q] = pc[q] /\ mine'[q] = mine[q]
    BY <1>7, EarlyCourse
  <2>2. UNCHANGED <<redis, history>> /\ (by = "token" => issued = "given")
    BY <1>7 DEF Start
  <2> QED
    BY <2>1, <2>2 DEF Calm, Validating
<1>8. ASSUME NEW r \in Requests, Refuse(r) \/ (\E p \in Profiles : Resolve(r, p)) PROVE Calm
  <2>1. /\ pc'[r] \in {"refused", "service"}
        /\ \A q \in Requests \ {r} : pc'[q] = pc[q] /\ mine'[q] = mine[q]
    BY <1>8, EarlyCourse
  <2>2. UNCHANGED <<redis, history>>
    BY <1>8 DEF Refuse, Resolve
  <2> QED
    BY <2>1, <2>2 DEF Calm, Validating
<1>9. ASSUME NEW r \in Requests,
             \/ GetProfile(r) \/ LoadDevice(r) \/ Upsert(r) \/ ReadLayers(r)
             \/ FindPolicy(r) \/ UpdatePolicy(r) \/ InsertPolicy(r) \/ Reply(r) \/ Fail(r)
      PROVE  Calm
  <2>1. /\ pc'[r] \in Service \cup Ended
        /\ \A q \in Requests \ {r} : pc'[q] = pc[q] /\ mine'[q] = mine[q]
    BY <1>9, LateCourse DEF Service, Ended
  <2>2. UNCHANGED redis
    BY <1>9 DEF GetProfile, LoadDevice, Upsert, ReadLayers, FindPolicy, UpdatePolicy, InsertPolicy,
                Reply, Fail
  <2>3. history'.raced = history.raced
    BY <1>0, <1>9 DEF GetProfile, LoadDevice, Upsert, ReadLayers, FindPolicy, UpdatePolicy,
                      InsertPolicy, WrittenBy, Reply, Fail, History
  <2> QED
    BY <2>1, <2>2, <2>3 DEF Calm, Validating, Service, Ended
<1>10. ASSUME \/ RemoveBegin \/ RemovePolicies \/ RemoveDevice \/ SyncRead \/ SyncClear \/ Bootstrap
              \/ (\E p \in Profiles : EditBegin(p)) \/ (\E gone \in BOOLEAN : EditCommit(gone))
              \/ UNCHANGED vars
       PROVE  Calm
  <2>1. UNCHANGED <<redis, pc, mine>>
    BY <1>10 DEF RemoveBegin, RemovePolicies, RemoveDevice, SyncRead, SyncClear, Bootstrap, EditBegin,
                 EditCommit, vars, redis
  <2>2. history'.raced = history.raced
    BY <1>0, <1>10 DEF RemoveBegin, RemovePolicies, RemoveDevice, SyncRead, SyncClear, Bootstrap,
                       EditBegin, EditCommit, vars, History
  <2>3. UNCHANGED redis /\ \A r \in Requests : pc'[r] = pc[r] /\ mine'[r] = mine[r]
    BY <2>1
  <2> QED
    BY <2>2, <2>3 DEF Calm
<1>11. ASSUME Crash PROVE Calm
  <2>1. \A r \in Requests : pc'[r] \in Ended \cup {"idle"}
    BY <1>11, CrashCourse DEF Ended
  <2>2. UNCHANGED redis /\ history'.raced = history.raced
    BY <1>11 DEF Crash
  <2>3. \A r \in Requests : r \notin Validating' /\ pc'[r] # "check"
    BY <2>1 DEF Validating, Ended
  <2> QED
    BY <2>2, <2>3 DEF Calm
<1> QED
  BY <1>1, <1>2, <1>3, <1>4, <1>5, <1>6, <1>7, <1>8, <1>9, <1>10, <1>11, CalmKeeps DEF Next, Step

-----------------------------------------------------------------------------
(* The key and the policy.                                                 *)

LEMMA CrossedGrows == TypeOK /\ [Next]_vars => history.crossed \subseteq history'.crossed
<1> SUFFICES ASSUME history \in History, [Next]_vars PROVE history.crossed \subseteq history'.crossed
  BY DEF TypeOK
<1>1. CASE history' = history
  BY <1>1
<1>2. ASSUME NEW r \in Requests, Step(r) PROVE history.crossed \subseteq history'.crossed
  BY <1>2 DEF Step, ReadToken, FirstHset, SecondHset, Refuse, Resolve, GetProfile, LoadDevice, Upsert,
              ReadLayers, FindPolicy, UpdatePolicy, InsertPolicy, WrittenBy, Reply, History
<1>3. ASSUME NEW gone \in BOOLEAN, EditCommit(gone) PROVE history.crossed \subseteq history'.crossed
  BY <1>3 DEF EditCommit, History
<1>4. CASE SyncClear
  BY <1>4 DEF SyncClear, History
<1> QED
  BY <1>1, <1>2, <1>3, <1>4 DEF Next, Generate, Give, Expire, Start, Fail, RemoveBegin, RemovePolicies,
                                RemoveDevice, EditBegin, SyncRead, Bootstrap, Crash, vars

\* Rows and requests that stay as they are, or requests that come to nothing.
LEMMA NothingWritten ==
    ASSUME KeyAndPolicy, PolicyFollowsKey, history.crossed \subseteq history'.crossed,
           dev'.key = dev.key, pol' = pol,
           \A q \in Requests : (pc'[q] = pc[q] /\ Same(q)) \/ pc'[q] \notin Deep \cup {"done"}
    PROVE  KeyAndPolicy' /\ PolicyFollowsKey'
<1>0. \A q \in Requests : pc'[q] \in Deep \cup {"done"} => pc'[q] = pc[q] /\ Merged(q)' = Merged(q)
  BY DEF Same, Merged
<1>1. \A q, r \in Requests : q # r /\ {pc'[q], pc'[r]} \subseteq Deep => q \in history'.crossed
  BY <1>0 DEF KeyAndPolicy
<1>2. \A q, r \in Requests :
        pc'[q] \in Writing /\ dev'.key = r /\ pc'[r] = "done" => r \in history'.crossed
  BY <1>0 DEF KeyAndPolicy, Writing, Deep, Service
<1>3. \A r \in Requests \ history'.crossed :
        pc'[r] \in {"audit", "done"} /\ dev'.key = r => pol' = Merged(r)'
  BY <1>0 DEF KeyAndPolicy, PolicyFollowsKey, Deep, Service
<1> QED
  BY <1>1, <1>2, <1>3 DEF KeyAndPolicy, PolicyFollowsKey

\* A request that reads on, towards its commit.
LEMMA ReadsOn ==
    ASSUME KeyAndPolicy, PolicyFollowsKey, history.crossed \subseteq history'.crossed,
           dev'.key = dev.key, pol' = pol, NEW r \in Requests,
           \A q \in Requests \ {r} : pc'[q] = pc[q] /\ mine'[q] = mine[q],
           pc'[r] \in Deep \ {"audit"},
           \/ pc[r] \in Deep
           \/ \A q \in Requests \ {r} : pc[q] \in Deep => {q, r} \subseteq history'.crossed,
           pc'[r] \in Writing => pc[r] \in Writing
    PROVE  KeyAndPolicy' /\ PolicyFollowsKey'
<1>0. \A q \in Requests \ {r} : pc'[q] = pc[q] /\ Merged(q)' = Merged(q)
  BY DEF Merged
<1>1. \A p, q \in Requests : p # q /\ {pc'[p], pc'[q]} \subseteq Deep => p \in history'.crossed
  BY <1>0 DEF KeyAndPolicy
<1>2. \A p, q \in Requests :
        pc'[p] \in Writing /\ dev'.key = q /\ pc'[q] = "done" => q \in history'.crossed
  <2>1. pc'[r] # "done"
    BY DEF Deep, Service
  <2> QED
    BY <1>0, <2>1 DEF KeyAndPolicy
<1>3. \A q \in Requests \ history'.crossed :
        pc'[q] \in {"audit", "done"} /\ dev'.key = q => pol' = Merged(q)'
  <2>1. pc'[r] \notin {"audit", "done"}
    BY DEF Deep, Service
  <2> QED
    BY <1>0, <2>1 DEF KeyAndPolicy, PolicyFollowsKey
<1> QED
  BY <1>1, <1>2, <1>3 DEF KeyAndPolicy, PolicyFollowsKey

\* The policy is written: by the only request that can claim it.
LEMMA PolicyWritten ==
    ASSUME TypeOK, KeyAndPolicy, PolicyFollowsKey, history.crossed \subseteq history'.crossed,
           dev' = dev, NEW r \in Requests, pc[r] \in {"update", "insert"}, pc'[r] = "audit",
           \A q \in Requests \ {r} : pc'[q] = pc[q], mine' = mine, pol' = Merged(r)
    PROVE  KeyAndPolicy' /\ PolicyFollowsKey'
<1>0. /\ \A q \in Requests \ {r} : pc'[q] = pc[q]
      /\ \A q \in Requests : Merged(q)' = Merged(q)
      /\ pc[r] \in Writing /\ pc[r] \in Deep /\ "audit" \in Deep /\ "audit" \notin Writing
  BY DEF Merged, Writing, Deep, Service
<1>1. \A p, q \in Requests : p # q /\ {pc'[p], pc'[q]} \subseteq Deep => p \in history'.crossed
  BY <1>0 DEF KeyAndPolicy
<1>2. \A p, q \in Requests :
        pc'[p] \in Writing /\ dev'.key = q /\ pc'[q] = "done" => q \in history'.crossed
  BY <1>0 DEF KeyAndPolicy
<1>3. \A q \in Requests \ history'.crossed :
        pc'[q] \in {"audit", "done"} /\ dev'.key = q => pol' = Merged(q)'
  BY <1>0 DEF KeyAndPolicy
<1> QED
  BY <1>1, <1>2, <1>3 DEF KeyAndPolicy, PolicyFollowsKey

\* The key is written by a request that is not done; or the rows go.
LEMMA KeyWritten ==
    ASSUME KeyAndPolicy, PolicyFollowsKey, history.crossed \subseteq history'.crossed,
           NEW r \in Requests, pc[r] \in Deep, pc'[r] \in Deep \ {"audit"},
           dev'.key \in {Nobody, r},
           \A q \in Requests \ {r} : pc'[q] = pc[q]
    PROVE  KeyAndPolicy' /\ PolicyFollowsKey'
<1>0. dev'.key \in Requests => pc'[dev'.key] \notin {"audit", "done"}
  BY Ids DEF Deep, Service
<1>1. \A p, q \in Requests : p # q /\ {pc'[p], pc'[q]} \subseteq Deep => p \in history'.crossed
  BY DEF KeyAndPolicy
<1> QED
  BY <1>0, <1>1 DEF KeyAndPolicy, PolicyFollowsKey

LEMMA KeyStep ==
    TypeOK /\ KeyAndPolicy /\ PolicyFollowsKey /\ [Next]_vars => KeyAndPolicy' /\ PolicyFollowsKey'
<1> SUFFICES ASSUME TypeOK, KeyAndPolicy, PolicyFollowsKey, [Next]_vars
             PROVE  KeyAndPolicy' /\ PolicyFollowsKey'
  OBVIOUS
<1>0. history.crossed \subseteq history'.crossed
  BY CrossedGrows
<1>1. ASSUME NEW r \in Requests,
             \/ \E by \in {"token", "secret"} : Start(r, by)
             \/ ReadToken(r) \/ FirstHset(r) \/ SecondHset(r) \/ Refuse(r)
             \/ \E p \in Profiles : Resolve(r, p)
      PROVE  KeyAndPolicy' /\ PolicyFollowsKey'
  <2>1. pc'[r] \in {"check", "first", "second", "failed", "service", "refused"}
    BY <1>1, EarlyCourse
  <2>2. \A q \in Requests \ {r} : pc'[q] = pc[q] /\ mine'[q] = mine[q]
    BY <1>1, EarlyCourse
  <2>3. dev' = dev /\ pol' = pol
    BY <1>1 DEF Start, ReadToken, FirstHset, SecondHset, Refuse, Resolve, rows
  <2>4. pc'[r] \notin Deep \cup {"done"}
    BY <2>1 DEF Deep, Service
  <2> QED
    BY <1>0, <2>2, <2>3, <2>4, NothingWritten DEF Same
<1>2. ASSUME NEW r \in Requests, GetProfile(r) PROVE KeyAndPolicy' /\ PolicyFollowsKey'
  <2>1. \A q \in Requests \ {r} : pc'[q] = pc[q] /\ mine'[q] = mine[q]
    BY <1>2, LateCourse
  <2>2. dev' = dev /\ pol' = pol
    BY <1>2 DEF GetProfile, rows
  <2>3. CASE pc'[r] \in {"refused", "failed"}
    <3>1. pc'[r] \notin Deep \cup {"done"}
      BY <2>3 DEF Deep, Service
    <3> QED
      BY <1>0, <2>1, <2>2, <3>1, NothingWritten DEF Same
  <2>4. CASE pc'[r] \notin {"refused", "failed"}
    <3>1. /\ pc[r] = "service" /\ pc'[r] = "load"
          /\ history' = [history EXCEPT !.crossed = @ \cup IF Enrolling = {r} THEN {} ELSE Enrolling]
      BY <1>2, <2>4, LateCourse
    <3>2. \A q \in Requests \ {r} : pc[q] \in Deep => {q, r} \subseteq history'.crossed
      <4> SUFFICES ASSUME NEW q \in Requests \ {r}, pc[q] \in Deep PROVE {q, r} \subseteq history'.crossed
        OBVIOUS
      <4>1. {q, r} \subseteq Enrolling /\ Enrolling # {r}
        BY <3>1 DEF Enrolling, Deep, Service
      <4> QED
        BY <3>1, <4>1 DEF TypeOK, History
    <3>3. pc'[r] \in Deep \ {"audit"} /\ pc'[r] \notin Writing
      BY <3>1 DEF Deep, Service, Writing
    <3> QED
      BY <1>0, <2>1, <2>2, <3>2, <3>3, ReadsOn
  <2> QED
    BY <2>3, <2>4
<1>3. ASSUME NEW r \in Requests, LoadDevice(r) \/ ReadLayers(r) \/ FindPolicy(r)
      PROVE  KeyAndPolicy' /\ PolicyFollowsKey'
  <2>1. /\ \A q \in Requests \ {r} : pc'[q] = pc[q] /\ mine'[q] = mine[q]
        /\ \/ pc[r] = "load" /\ pc'[r] = "upsert"
           \/ pc[r] = "layers" /\ pc'[r] = "find"
           \/ pc[r] = "find" /\ pc'[r] \in {"update", "insert"}
    BY <1>3, LateCourse
  <2>2. dev' = dev /\ pol' = pol
    BY <1>3 DEF LoadDevice, ReadLayers, FindPolicy, rows
  <2>3. /\ pc[r] \in Deep /\ pc'[r] \in Deep \ {"audit"}
        /\ pc'[r] \in Writing => pc[r] \in Writing
    BY <2>1 DEF Deep, Service, Writing
  <2> QED
    BY <1>0, <2>1, <2>2, <2>3, ReadsOn
<1>4. ASSUME NEW r \in Requests, Upsert(r) PROVE KeyAndPolicy' /\ PolicyFollowsKey'
  <2>1. \A q \in Requests \ {r} : pc'[q] = pc[q] /\ mine'[q] = mine[q]
    BY <1>4, LateCourse
  <2>2. CASE mine[r].dev = NoDevice /\ dev # NoDevice
    <3>1. End(r, "failed") /\ dev' = dev /\ pol' = pol
      BY <1>4, <2>2 DEF Upsert
    <3>2. pc'[r] = "failed"
      BY <3>1, TypePlaces, Endings DEF TypeOK, Places, Ended
    <3>3. pc'[r] \notin Deep \cup {"done"}
      BY <3>2 DEF Deep, Service
    <3> QED
      BY <1>0, <2>1, <3>1, <3>3, NothingWritten DEF Same
  <2>3. CASE ~(mine[r].dev = NoDevice /\ dev # NoDevice)
    <3>1. pc[r] = "upsert" /\ Go(r, "layers")
      BY <1>4, <2>3 DEF Upsert
    <3>2. pc[r] \in Deep /\ pc'[r] \in Deep \ {"audit"}
      BY <3>1, TypePlaces, Moves DEF Deep, Service, Places
    <3>3. dev' = WriteDevice(r) \/ (dev' = dev /\ dev = NoDevice)
      BY <1>4, <2>3 DEF Upsert
    <3>4. dev'.key \in {Nobody, r}
      BY <3>3, WriteTypes, Blanks
    <3> QED
      BY <1>0, <2>1, <3>2, <3>4, KeyWritten
  <2> QED
    BY <2>2, <2>3
<1>5. ASSUME NEW r \in Requests, UpdatePolicy(r) PROVE KeyAndPolicy' /\ PolicyFollowsKey'
  <2>1. pc[r] = "update" /\ pc'[r] = "audit" /\ mine' = mine /\ \A q \in Requests \ {r} : pc'[q] = pc[q]
    BY <1>5, LateCourse
  <2>2. dev' = dev /\ pol' = Merged(r)
    BY <1>5 DEF UpdatePolicy
  <2> QED
    BY <1>0, <2>1, <2>2, PolicyWritten
<1>6. ASSUME NEW r \in Requests, InsertPolicy(r) PROVE KeyAndPolicy' /\ PolicyFollowsKey'
  <2>1. pc[r] = "insert" /\ \A q \in Requests \ {r} : pc'[q] = pc[q] /\ mine'[q] = mine[q]
    BY <1>6, LateCourse
  <2>2. CASE pol = NoPolicy /\ dev # NoDevice
    <3>1. dev' = dev /\ pol' = Merged(r) /\ mine' = mine /\ Go(r, "audit")
      BY <1>6, <2>2 DEF InsertPolicy
    <3>2. pc'[r] = "audit"
      BY <3>1, TypePlaces, Moves DEF Service, Places
    <3> QED
      BY <1>0, <2>1, <3>1, <3>2, PolicyWritten
  <2>3. CASE ~(pol = NoPolicy /\ dev # NoDevice)
    <3>1. dev' = dev /\ pol' = pol /\ End(r, "failed")
      BY <1>6, <2>3 DEF InsertPolicy
    <3>2. pc'[r] = "failed"
      BY <3>1, TypePlaces, Endings DEF TypeOK, Places, Ended
    <3>3. pc'[r] \notin Deep \cup {"done"}
      BY <3>2 DEF Deep, Service
    <3> QED
      BY <1>0, <2>1, <3>1, <3>3, NothingWritten DEF Same
  <2> QED
    BY <2>2, <2>3
<1>7. ASSUME NEW r \in Requests, Reply(r) PROVE KeyAndPolicy' /\ PolicyFollowsKey'
  <2>1. /\ pc[r] = "audit" /\ pc'[r] = "done" /\ mine' = mine
        /\ \A q \in Requests \ {r} : pc'[q] = pc[q]
    BY <1>7, LateCourse
  <2>2. dev' = dev /\ pol' = pol /\ \A q \in Requests : Merged(q)' = Merged(q)
    BY <1>7, <2>1 DEF Reply, rows, Merged
  <2>3. pc[r] \in Deep /\ pc'[r] \notin Deep /\ Writing \subseteq Deep
    BY <2>1 DEF Deep, Service, Writing
  <2>4. \A p, q \in Requests : p # q /\ {pc'[p], pc'[q]} \subseteq Deep => p \in history'.crossed
    BY <1>0, <2>1, <2>3 DEF KeyAndPolicy
  <2>5. \A p, q \in Requests :
          pc'[p] \in Writing /\ dev'.key = q /\ pc'[q] = "done" => q \in history'.crossed
    <3> SUFFICES ASSUME NEW p \in Requests, NEW q \in Requests,
                        pc'[p] \in Writing, dev'.key = q, pc'[q] = "done"
                 PROVE  q \in history'.crossed
      OBVIOUS
    <3>1. p # r /\ pc[p] \in Writing /\ pc[p] \in Deep
      BY <2>1, <2>3
    <3>2. CASE q = r
      BY <1>0, <2>3, <3>1, <3>2 DEF KeyAndPolicy
    <3>3. CASE q # r
      BY <1>0, <2>1, <2>2, <3>1, <3>3 DEF KeyAndPolicy
    <3> QED
      BY <3>2, <3>3
  <2>6. \A q \in Requests \ history'.crossed :
          pc'[q] \in {"audit", "done"} /\ dev'.key = q => pol' = Merged(q)'
    BY <1>0, <2>1, <2>2 DEF KeyAndPolicy, PolicyFollowsKey
  <2> QED
    BY <2>4, <2>5, <2>6 DEF KeyAndPolicy, PolicyFollowsKey
<1>8. ASSUME NEW r \in Requests, Fail(r) PROVE KeyAndPolicy' /\ PolicyFollowsKey'
  <2>1. pc'[r] = "failed" /\ \A q \in Requests \ {r} : pc'[q] = pc[q] /\ mine'[q] = mine[q]
    BY <1>8, LateCourse
  <2>2. pc'[r] \notin Deep \cup {"done"} /\ dev' = dev /\ pol' = pol
    BY <1>8, <2>1 DEF Fail, Deep, Service
  <2> QED
    BY <1>0, <2>1, <2>2, NothingWritten DEF Same
<1>9. ASSUME UNCHANGED <<pc, mine>>, dev'.key = dev.key, pol' = pol
      PROVE  KeyAndPolicy' /\ PolicyFollowsKey'
  BY <1>0, <1>9, NothingWritten DEF Same
<1>10. CASE Outside \/ RemovePolicies \/ SyncClear \/ \E gone \in BOOLEAN : EditCommit(gone)
  <2>1. UNCHANGED <<pc, mine>> /\ pol' = pol
    BY <1>10, OutsideLeaves DEF RemovePolicies, SyncClear, EditCommit, rows
  <2>2. dev'.key = dev.key
    BY <1>10, OutsideLeaves DEF RemovePolicies, SyncClear, EditCommit, Marked, rows, TypeOK, Device
  <2> QED
    BY <1>9, <2>1, <2>2
<1>11. CASE RemoveDevice
  <2>1. UNCHANGED <<pc, mine, history>>
    BY <1>11 DEF RemoveDevice
  <2>2. CASE dev' = dev /\ pol' = pol
    BY <1>9, <2>1, <2>2
  <2>3. CASE dev' = NoDevice
    <3>1. dev'.key \notin Requests
      BY <2>3, Blanks, Ids
    <3>2. \A q, r \in Requests : q # r /\ {pc'[q], pc'[r]} \subseteq Deep => q \in history'.crossed
      BY <2>1 DEF KeyAndPolicy
    <3> QED
      BY <3>1, <3>2 DEF KeyAndPolicy, PolicyFollowsKey
  <2> QED
    BY <1>11, <2>2, <2>3 DEF RemoveDevice
<1>12. CASE Crash
  <2>1. \A r \in Requests : (pc'[r] = pc[r] /\ Same(r)) \/ pc'[r] = "lost"
    BY <1>12, CrashCourse DEF Same
  <2>2. "lost" \notin Deep \cup {"done"} /\ dev' = dev /\ pol' = pol
    BY <1>12 DEF Crash, Deep, Service
  <2> QED
    BY <1>0, <2>1, <2>2, NothingWritten
<1> QED
  BY <1>1, <1>2, <1>3, <1>4, <1>5, <1>6, <1>7, <1>8, <1>10, <1>11, <1>12 DEF Next, Step, Outside

-----------------------------------------------------------------------------
(* The contents.                                                           *)

Fresh(r) ==
    /\ pc[r] \in Deep \ {"audit"} => mine[r].static = content[mine[r].profile]
    /\ pc[r] \in {"find", "update", "insert"} => mine[r].linked = content[mine[r].profile]

Past == Ended \cup {"audit"}

LEMMA FreshMoves ==
    ASSUME ReadsAreFresh, content' = content, history'.outrun = history.outrun,
           history'.writer = history.writer,
           \A q \in Requests :
              \/ pc'[q] = pc[q] /\ Same(q)
              \/ /\ pc[q] \notin Past \/ pc'[q] \in Past
                 /\ q \notin history.outrun => Fresh(q)'
    PROVE  ReadsAreFresh'
<1>1. \A q \in Requests \ history.outrun : Fresh(q) /\ Fresh(q)'
  BY DEF ReadsAreFresh, Fresh, Same
<1>2. history.writer \in Requests => pc'[history.writer] \in Past
  BY DEF ReadsAreFresh, Past
<1> QED
  BY <1>1, <1>2 DEF ReadsAreFresh, Fresh, Past

LEMMA FreshStep == TypeOK /\ ReadsAreFresh /\ [Next]_vars => ReadsAreFresh'
<1> SUFFICES ASSUME TypeOK, ReadsAreFresh, [Next]_vars PROVE ReadsAreFresh'
  OBVIOUS
<1>0. history \in History /\ \A q \in Requests \ history.outrun : Fresh(q)
  BY DEF TypeOK, ReadsAreFresh, Fresh
<1>1. ASSUME NEW r \in Requests,
             \/ \E by \in {"token", "secret"} : Start(r, by)
             \/ ReadToken(r) \/ FirstHset(r) \/ SecondHset(r) \/ Refuse(r)
             \/ \E p \in Profiles : Resolve(r, p)
      PROVE  ReadsAreFresh'
  <2>1. /\ \A q \in Requests \ {r} : pc'[q] = pc[q] /\ mine'[q] = mine[q]
        /\ pc[r] \in {"idle", "check", "first", "second"}
        /\ pc'[r] \in {"check", "first", "second", "failed", "service", "refused"}
    BY <1>1, EarlyCourse
  <2>2. pc[r] \notin Past /\ pc'[r] \notin Deep
    BY <2>1 DEF Past, Ended, Deep, Service
  <2>3. content' = content
    BY <1>1 DEF Start, ReadToken, FirstHset, SecondHset, Refuse, Resolve, admin
  <2>4. history'.outrun = history.outrun /\ history'.writer = history.writer
    BY <1>0, <1>1 DEF Start, ReadToken, FirstHset, SecondHset, Refuse, Resolve, History
  <2>5. Fresh(r)'
    BY <2>2 DEF Fresh, Deep, Service
  <2> QED
    BY <2>1, <2>2, <2>3, <2>4, <2>5, FreshMoves DEF Same
<1>2. ASSUME NEW r \in Requests,
             GetProfile(r) \/ LoadDevice(r) \/ Upsert(r) \/ ReadLayers(r) \/ FindPolicy(r)
      PROVE  ReadsAreFresh'
  <2>1. \A q \in Requests \ {r} : pc'[q] = pc[q] /\ mine'[q] = mine[q]
    BY <1>2, LateCourse
  <2>2. pc[r] \notin Past
    <3>1. pc[r] \in {"service", "load", "upsert", "layers", "find"}
      BY <1>2, LateCourse
    <3> QED
      BY <3>1 DEF Past, Ended
  <2>3. content' = content
    BY <1>2 DEF GetProfile, LoadDevice, Upsert, ReadLayers, FindPolicy, admin
  <2>4. history'.outrun = history.outrun /\ history'.writer = history.writer
    BY <1>0, <1>2 DEF GetProfile, LoadDevice, Upsert, ReadLayers, FindPolicy, History
  <2>5. r \notin history.outrun => Fresh(r)'
    <3> SUFFICES ASSUME r \notin history.outrun PROVE Fresh(r)'
      OBVIOUS
    <3>0. Fresh(r)
      BY <1>0
    <3>1. CASE pc'[r] \in Ended
      BY <3>1 DEF Fresh, Ended, Deep, Service
    <3>2. CASE GetProfile(r) /\ pc'[r] = "load"
      BY <2>3, <3>2, LateCourse DEF Fresh
    <3>3. CASE LoadDevice(r)
      <4>1. pc[r] = "load" /\ pc'[r] = "upsert" /\ Same(r)
        BY <3>3, LateCourse
      <4> QED
        BY <2>3, <3>0, <4>1 DEF Fresh, Same, Deep, Service
    <3>4. CASE Upsert(r) /\ pc'[r] # "failed"
      <4>1. pc[r] = "upsert" /\ pc'[r] = "layers" /\ Same(r)
        BY <3>4, LateCourse
      <4> QED
        BY <2>3, <3>0, <4>1 DEF Fresh, Same, Deep, Service
    <3>5. CASE ReadLayers(r)
      <4>1. /\ pc[r] = "layers" /\ pc'[r] = "find" /\ mine'[r].profile = mine[r].profile
            /\ mine'[r].static = mine[r].static /\ mine'[r].linked = content[mine[r].profile]
        BY <3>5, LateCourse
      <4> QED
        BY <2>3, <3>0, <4>1 DEF Fresh, Deep, Service
    <3>6. CASE FindPolicy(r)
      <4>1. pc[r] = "find" /\ pc'[r] \in {"update", "insert"} /\ mine' = mine
        BY <3>6, LateCourse
      <4> QED
        BY <2>3, <3>0, <4>1 DEF Fresh, Deep, Service
    <3> QED
      BY <1>2, <3>1, <3>2, <3>3, <3>4, <3>5, <3>6, LateCourse DEF Ended
  <2> QED
    BY <2>1, <2>2, <2>3, <2>4, <2>5, FreshMoves DEF Same
<1>3. ASSUME NEW r \in Requests, UpdatePolicy(r) \/ InsertPolicy(r) PROVE ReadsAreFresh'
  <2>1. /\ \A q \in Requests \ {r} : pc'[q] = pc[q] /\ mine'[q] = mine[q]
        /\ pc'[r] \in {"audit", "failed"}
    BY <1>3, LateCourse
  <2>2. content' = content
    BY <1>3 DEF UpdatePolicy, InsertPolicy, admin
  <2>3. history'.outrun = history.outrun /\ history'.writer \in {history.writer, r}
    BY <1>0, <1>3 DEF UpdatePolicy, InsertPolicy, WrittenBy, History
  <2>4. pc'[r] \in Past /\ Fresh(r)'
    BY <2>1 DEF Past, Ended, Fresh, Deep, Service
  <2>5. history'.writer \in Requests => pc'[history'.writer] \in Past
    BY <2>1, <2>3, <2>4 DEF ReadsAreFresh, Past
  <2>6. \A q \in Requests \ history'.outrun : Fresh(q)'
    BY <1>0, <2>1, <2>2, <2>3, <2>4 DEF Fresh
  <2> QED
    BY <2>5, <2>6 DEF ReadsAreFresh, Fresh, Past
<1>4. ASSUME NEW r \in Requests, Reply(r) \/ Fail(r) PROVE ReadsAreFresh'
  <2>1. /\ \A q \in Requests \ {r} : pc'[q] = pc[q] /\ mine'[q] = mine[q]
        /\ pc'[r] \in {"done", "failed"}
    BY <1>4, LateCourse
  <2>2. content' = content /\ history' = history
    BY <1>4 DEF Reply, Fail, admin
  <2>3. pc'[r] \in Past /\ Fresh(r)'
    BY <2>1 DEF Past, Ended, Fresh, Deep, Service
  <2> QED
    BY <2>1, <2>2, <2>3, FreshMoves DEF Same
<1>5. CASE Outside \/ RemovePolicies \/ RemoveDevice \/ SyncClear
  <2>1. UNCHANGED <<pc, mine, content>>
    BY <1>5, OutsideLeaves DEF RemovePolicies, RemoveDevice, SyncClear, admin
  <2>2. history'.outrun = history.outrun /\ history'.writer = history.writer
    BY <1>0, <1>5, OutsideLeaves DEF RemovePolicies, RemoveDevice, SyncClear, History
  <2> QED
    BY <2>1, <2>2, FreshMoves DEF Same
<1>6. ASSUME NEW gone \in BOOLEAN, EditCommit(gone) PROVE ReadsAreFresh'
  <2>1. UNCHANGED <<pc, mine>> /\ history'.writer = history.writer
    BY <1>0, <1>6 DEF EditCommit, History
  <2>2. \A q \in Requests : pc[q] \in Deep \ {"audit"} => q \in history'.outrun
    <3>1. history'.outrun = history.outrun \cup {r \in Enrolling : pc[r] \notin {"service", "audit"}}
      BY <1>0, <1>6 DEF EditCommit, History
    <3> QED
      BY <3>1 DEF Enrolling, Deep
  <2> QED
    BY <2>1, <2>2 DEF ReadsAreFresh, Deep, Service
<1>7. CASE Crash
  <2>1. \A r \in Requests : (pc'[r] = pc[r] /\ Same(r)) \/ pc'[r] = "lost"
    BY <1>7, CrashCourse DEF Same
  <2>2. \A r \in Requests : pc'[r] = "lost" => pc'[r] \in Past /\ Fresh(r)'
    BY DEF Past, Ended, Fresh, Deep, Service
  <2>3. content' = content /\ history' = history
    BY <1>7 DEF Crash
  <2> QED
    BY <2>1, <2>2, <2>3, FreshMoves
<1> QED
  BY <1>1, <1>2, <1>3, <1>4, <1>5, <1>6, <1>7 DEF Next, Step, Outside

LEMMA StaleStep == TypeOK /\ ReadsAreFresh /\ StaleIsMarked /\ [Next]_vars => StaleIsMarked'
<1> SUFFICES ASSUME TypeOK, ReadsAreFresh, StaleIsMarked, [Next]_vars PROVE StaleIsMarked'
  OBVIOUS
<1> DEFINE Still == /\ history'.outrun = history.outrun /\ history'.writer = history.writer
                    /\ history'.synced = history.synced
<1>0. history \in History /\ dev \in Device /\ pol \in Policy
  BY DEF TypeOK
<1>1. ASSUME NEW r \in Requests, UpdatePolicy(r) \/ (InsertPolicy(r) /\ pol = NoPolicy /\ dev # NoDevice)
      PROVE  StaleIsMarked'
  <2>1. /\ pol' = Merged(r) /\ content' = content /\ pc[r] \in {"update", "insert"}
        /\ history' = [history EXCEPT !.writer = r, !.synced = FALSE]
    BY <1>1 DEF UpdatePolicy, InsertPolicy, WrittenBy, admin
  <2>2. history'.writer = r /\ history'.outrun = history.outrun
    BY <1>0, <2>1 DEF History
  <2>3. r \notin history.outrun => /\ Merged(r).static = content[Merged(r).profile]
                                   /\ Merged(r).linked = content[Merged(r).profile]
    BY <2>1, WriteTypes DEF ReadsAreFresh, Deep, Service
  <2> QED
    BY <2>1, <2>2, <2>3 DEF StaleIsMarked
<1>2. ASSUME NEW r \in Requests, Upsert(r) PROVE StaleIsMarked'
  <2>1. pol' = pol /\ content' = content /\ history' = history /\ pc[r] = "upsert"
    BY <1>2 DEF Upsert, admin
  <2>2. CASE dev' = dev
    BY <2>1, <2>2 DEF StaleIsMarked
  <2>3. CASE dev' = WriteDevice(r)
    <3>1. dev'.key = r
      BY <2>3, WriteTypes
    <3>2. history.writer # r
      BY <2>1 DEF ReadsAreFresh, Ended
    <3> QED
      BY <2>1, <3>1, <3>2 DEF StaleIsMarked
  <2> QED
    BY <1>2, <2>2, <2>3 DEF Upsert
<1>3. ASSUME NEW gone \in BOOLEAN, EditCommit(gone) PROVE StaleIsMarked'
  <2>1. /\ pol' = pol /\ edit \in Profiles /\ content' = [content EXCEPT ![edit] = content[edit] + 1]
        /\ dev' = [dev EXCEPT !.outdated = dev.outdated \/ pol.profile = edit]
    BY <1>3 DEF EditCommit, Marked, TypeOK
  <2>2. /\ history.outrun \subseteq history'.outrun /\ history'.writer = history.writer
        /\ history'.synced = history.synced
    BY <1>0, <1>3 DEF EditCommit, History
  <2>3. dev'.key = dev.key /\ dev'.outdated = (dev.outdated \/ pol.profile = edit)
    BY <1>0, <2>1 DEF Device
  <2>4. pol # NoPolicy /\ ~dev'.outdated => content'[pol.profile] = content[pol.profile]
    BY <1>0, <2>1, <2>3 DEF Policy, TypeOK
  <2> QED
    BY <2>1, <2>2, <2>3, <2>4 DEF StaleIsMarked
<1>4. CASE SyncClear
  <2>1. history'.synced = TRUE
    BY <1>0, <1>4 DEF SyncClear, History
  <2> QED
    BY <2>1 DEF StaleIsMarked
<1>5. CASE RemoveDevice
  <2>1. (pol' = NoPolicy \/ (pol' = pol /\ dev' = dev)) /\ content' = content /\ history' = history
    BY <1>5 DEF RemoveDevice
  <2> QED
    BY <2>1 DEF StaleIsMarked
<1>6. ASSUME Still, UNCHANGED <<dev, pol, content>> PROVE StaleIsMarked'
  BY <1>6 DEF StaleIsMarked
<1>7. ASSUME NEW r \in Requests,
             \/ ReadToken(r) \/ FirstHset(r) \/ SecondHset(r) \/ Refuse(r)
             \/ (\E p \in Profiles : Resolve(r, p))
             \/ GetProfile(r) \/ LoadDevice(r) \/ ReadLayers(r) \/ FindPolicy(r) \/ Reply(r) \/ Fail(r)
             \/ (InsertPolicy(r) /\ ~(pol = NoPolicy /\ dev # NoDevice))
      PROVE  Still /\ UNCHANGED <<dev, pol, content>>
  BY <1>0, <1>7 DEF ReadToken, FirstHset, SecondHset, Refuse, Resolve, GetProfile, LoadDevice, ReadLayers,
                    FindPolicy, Reply, Fail, InsertPolicy, rows, admin, History
<1>8. ASSUME \/ Outside \/ RemovePolicies \/ Crash
             \/ \E r \in Requests, by \in {"token", "secret"} : Start(r, by)
      PROVE  Still /\ UNCHANGED <<dev, pol, content>>
  BY <1>8, OutsideLeaves DEF RemovePolicies, Crash, Start, rows, admin
<1> QED
  BY <1>1, <1>2, <1>3, <1>4, <1>5, <1>6, <1>7, <1>8 DEF Next, Step, Outside

-----------------------------------------------------------------------------
(* The invariant.                                                          *)

LEMMA InitIInv == Init => IInv
<1> SUFFICES ASSUME Init PROVE IInv
  OBVIOUS
<1>1. TypeOK
  BY InitType
<1>2. /\ pc \in [Requests -> {"idle"}] /\ token = NoToken /\ ~history.raced /\ accepted = 0
      /\ \A r \in Requests : pc[r] = "idle"
  BY DEF Init
<1>3. /\ (dev = NoDevice /\ pol = NoPolicy) \/ (dev.key = Earlier /\ dev # NoDevice)
      /\ lock = Nobody /\ dev.key \notin Requests
  <2>1. CASE dev = NoDevice /\ pol = NoPolicy
    BY <2>1, Blanks, Ids DEF Init
  <2>2. CASE dev = [NoDevice EXCEPT !.key = Earlier]
    <3>1. dev.key = Earlier
      BY <2>2 DEF NoDevice
    <3> QED
      BY <3>1, Blanks, Ids DEF Init
  <2> QED
    BY <2>1, <2>2 DEF Init
<1>4. RowsHold
  BY <1>2, <1>3, Ids, Blanks DEF RowsHold
<1>5. TokenBudget /\ BudgetLeft
  <2>1. ~Real /\ Validating = {} /\ token.mode = "none"
    BY <1>2, Blanks DEF Real, Validating
  <2> QED
    BY <1>2, <2>1 DEF TokenBudget, BudgetLeft, Real
<1>6. PolicyFollowsKey /\ KeyAndPolicy
  BY <1>2 DEF PolicyFollowsKey, KeyAndPolicy, Deep, Writing, Service
<1>7. history.writer \notin Requests
  BY Ids DEF Init
<1>8. ReadsAreFresh
  BY <1>2, <1>7 DEF ReadsAreFresh, Deep, Service
<1>9. StaleIsMarked
  <2>1. CASE pol = NoPolicy
    BY <2>1 DEF StaleIsMarked
  <2>2. CASE \E p \in Profiles : pol = [NoPolicy EXCEPT !.profile = p]
    <3>1. pol.static = 0 /\ pol.linked = 0 /\ pol.profile \in Profiles
      BY <2>2 DEF NoPolicy
    <3> QED
      BY <3>1 DEF StaleIsMarked, Init
  <2> QED
    BY <2>1, <2>2 DEF Init
<1> QED
  BY <1>1, <1>4, <1>5, <1>6, <1>8, <1>9 DEF IInv

LEMMA InvariantStep == IInv /\ [Next]_vars => IInv'
BY TypeStep, RowsStep, BudgetStep, KeyStep, FreshStep, StaleStep DEF IInv

(* Everything the runs check of the enrolment's states holds in all of them,  *)
(* for any bounds: types, rows and lock, and the four parts below.            *)
THEOREM EnrollmentInvariant == Spec => []IInv
<1>1. Init => IInv
  BY InitIInv
<1>2. IInv /\ [Next]_vars => IInv'
  BY InvariantStep
<1> QED
  BY <1>1, <1>2, PTL DEF Spec

(* validate_enrollment_token writes the two halves of a use one after the      *)
(* other, and on what it read; still, while validations do not overlap, no     *)
(* failure or expiry between them lets a token admit more than max_devices.   *)
THEOREM TokenAdmitsItsBudget == Spec => []TokenBudget
<1>1. IInv => TokenBudget
  BY DEF IInv
<1> QED
  BY <1>1, EnrollmentInvariant, PTL

(* enroll_device commits the key and then the policy; a device whose key is     *)
(* in force has the policy merged by the request that made the key, when no     *)
(* other request of the device was in the service with it.                   *)
THEOREM KeyKeepsItsPolicy == Spec => []PolicyFollowsKey
<1>1. IInv => PolicyFollowsKey
  BY DEF IInv
<1> QED
  BY <1>1, EnrollmentInvariant, PTL

(* update_profile marks the devices of its profile in the commit that changes   *)
(* it: no device is left unmarked with contents that have been replaced, but    *)
(* one whose enrolment had read them and not yet committed.                   *)
THEOREM ReplacedIsMarked == Spec => []StaleIsMarked
<1>1. IInv => StaleIsMarked
  BY DEF IInv
<1> QED
  BY <1>1, EnrollmentInvariant, PTL

=============================================================================
