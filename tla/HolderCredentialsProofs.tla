----------------------- MODULE HolderCredentialsProofs -----------------------
(***************************************************************************)
(* Proofs about HolderCredentials: whom a presentation is given to, whom   *)
(* the cap on remembered tokens can cost an answer, and that a             *)
(* configuration BrokerConfig accepts is enough for every crawl and sends  *)
(* credentials only over https or to this machine.                         *)
(***************************************************************************)
EXTENDS HolderCredentials, FiniteSetTheorems, TLAPS

-----------------------------------------------------------------------------
(* The tokens: what is remembered of them, and what callbacks get for them. *)

\* e is what this process remembers of the token t.
Records(e, t) ==
    /\ e.jti = t.jti /\ e.provider_did = t.to /\ e.exp = t.exp
    /\ t.signer = generation

\* The tokens of this process that expire no sooner than t.
Outlasting(t) == {u \in held \ {t} : u.exp >= t.exp /\ u.signer = generation}

\* Every token sent out has a number of its own.
HeldInv ==
    /\ clock \in Nat /\ generation \in Nat
    /\ IsFiniteSet(held)
    /\ \A t \in held : /\ t.jti \in 1..Cardinality(held)
                       /\ t.exp \in Nat /\ t.exp <= clock + TokenLife
                       /\ t.signer \in Nat /\ t.signer <= generation
    /\ \A t, u \in held : t.jti = u.jti => t = u

\* What is remembered was sent out by this process, and what was sent out and
\* can still be used is remembered or was pushed out by MAX_ISSUED_TOKENS
\* others that outlast it.
IssuedInv ==
    /\ IsFiniteSet(issued)
    /\ \A e \in issued : \E t \in held : Records(e, t)
    /\ \A e, f \in issued : e.jti = f.jti => e = f
    /\ \A t \in held : t.signer = generation /\ clock < t.exp =>
          \/ \E e \in issued : Records(e, t)
          \/ Cardinality(Outlasting(t)) >= MAX_ISSUED_TOKENS

\* A callback that waits came in time with a token of this process, for the
\* party the token was minted for, and does not wait longer than the limit.
Invited(q) ==
    /\ q.arrived \in Nat /\ q.arrived <= clock
    /\ clock <= q.arrived + ResolutionTimeout
    /\ \E t \in held : /\ t.jti = q.nested.jti /\ t.to = q.t3.iss
                       /\ t.signer = generation /\ q.arrived < t.exp

TokenInv ==
    /\ HeldInv
    /\ IssuedInv
    /\ \A q \in pending : Invited(q)
    /\ PresentedOnlyToInvited
    /\ NoLookupForStrangers

tokenVars == <<generation, clock, issued, held, resolved, pending, disclosed>>

\* A step that touches no token and no callback.
LEMMA TokensUntouched ==
    ASSUME TokenInv, UNCHANGED tokenVars
    PROVE  TokenInv'
BY DEF TokenInv, tokenVars, HeldInv, IssuedInv, Invited, Records, Outlasting,
   PresentedOnlyToInvited, NoLookupForStrangers

\* A restart forgets its tokens, and signs with a key none of them has.
LEMMA RestartKeepsTokens ==
    ASSUME TokenInv, Restart
    PROVE  TokenInv'
<1>f. /\ generation' = generation + 1 /\ issued' = {} /\ pending' = {}
      /\ UNCHANGED <<clock, held, resolved, disclosed>>
  BY DEF Restart
<1>1. HeldInv'
  BY <1>f DEF TokenInv, HeldInv
<1>2. \A t \in held : t.signer # generation'
  BY <1>f DEF TokenInv, HeldInv
<1>3. IssuedInv'
  BY <1>f, <1>2, FS_EmptySet DEF IssuedInv
<1>4. QED
  BY <1>f, <1>1, <1>3 DEF TokenInv, PresentedOnlyToInvited, NoLookupForStrangers

\* Time passes only while no DID lookup has reached its limit.
LEMMA TickKeepsTokens ==
    ASSUME TokenInv, Tick
    PROVE  TokenInv'
<1> USE HolderAssumption
<1>f. /\ clock' = clock + 1 /\ \A q \in pending : clock < q.arrived + ResolutionTimeout
      /\ UNCHANGED <<generation, issued, held, resolved, pending, disclosed>>
  BY DEF Tick, boot, crawls, callbacks
<1>1. HeldInv'
  BY <1>f DEF TokenInv, HeldInv
<1>2. IssuedInv'
  <2>1. ASSUME NEW t \in held, t.signer = generation, clock' < t.exp
        PROVE  \/ \E e \in issued : Records(e, t)
               \/ Cardinality(Outlasting(t)) >= MAX_ISSUED_TOKENS
    BY <1>f, <2>1 DEF TokenInv, HeldInv, IssuedInv
  <2>2. QED
    BY <1>f, <2>1 DEF TokenInv, IssuedInv, Records, Outlasting
<1>3. ASSUME NEW q \in pending PROVE Invited(q)'
  BY <1>f, <1>3 DEF TokenInv, HeldInv, Invited
<1>4. QED
  BY <1>f, <1>1, <1>2, <1>3 DEF TokenInv, PresentedOnlyToInvited, NoLookupForStrangers

\* A callback is let through to the DID lookup only with a remembered token.
LEMMA QueryKeepsTokens ==
    ASSUME TokenInv, NEW t3, NEW nested, holder_presentation_query_route(t3, nested)
    PROVE  TokenInv'
<1> USE HolderAssumption
<1>f. UNCHANGED <<generation, clock, issued, held, disclosed>>
  BY DEF holder_presentation_query_route, boot, crawls
<1>1. CASE holder # None /\ QueryRefused(t3, nested) = ""
  <2>1. /\ resolved' = resolved \cup {t3.iss}
        /\ pending' = {[t3 |-> t3, nested |-> nested[1], arrived |-> clock]}
    BY <1>1 DEF holder_presentation_query_route
  <2>2. NestedRefused(t3, nested) = ""
    BY <1>1 DEF QueryRefused
  <2>3. t3.iss \in issued_to(nested[1].jti)
    BY <2>2 DEF NestedRefused
  <2>4. PICK e \in issued : /\ e.jti = nested[1].jti /\ e.exp > clock
                            /\ e.provider_did = t3.iss
    BY <2>3 DEF issued_to
  <2>5. PICK t \in held : Records(e, t)
    BY DEF TokenInv, IssuedInv
  <2>6. /\ t.jti = nested[1].jti /\ t.to = t3.iss /\ t.signer = generation
        /\ clock < t.exp
    BY <2>4, <2>5 DEF Records, TokenInv, HeldInv
  <2>7. ASSUME NEW q \in pending' PROVE Invited(q)'
    <3>1. q.t3 = t3 /\ q.nested = nested[1] /\ q.arrived = clock
      BY <2>1
    <3>2. QED
      BY <1>f, <2>6, <3>1 DEF Invited, TokenInv, HeldInv
  <2>8. NoLookupForStrangers'
    BY <1>f, <2>1, <2>6 DEF TokenInv, NoLookupForStrangers
  <2>9. QED
    BY <1>f, <2>7, <2>8 DEF TokenInv, HeldInv, IssuedInv, Records, Outlasting,
       PresentedOnlyToInvited
<1>2. CASE ~(holder # None /\ QueryRefused(t3, nested) = "")
  BY <1>2, <1>f, TokensUntouched DEF holder_presentation_query_route, tokenVars
<1>3. QED
  BY <1>1, <1>2

\* A presentation goes to the caller that signed with the key of its DID.
LEMMA LookupEndsKeepsTokens ==
    ASSUME TokenInv, NEW q \in pending, DidResolved(q) \/ DidFailed(q)
    PROVE  TokenInv'
<1> USE HolderAssumption
<1>f. /\ pending' = pending \ {q}
      /\ UNCHANGED <<generation, clock, issued, held, resolved>>
  BY DEF DidResolved, DidFailed, boot, crawls
<1>1. \A p \in pending' : Invited(p)'
  BY <1>f DEF TokenInv, Invited
<1>2. PresentedOnlyToInvited'
  <2>1. CASE disclosed' = disclosed
    BY <1>f, <2>1 DEF TokenInv, PresentedOnlyToInvited
  <2>2. CASE DidResolved(q) /\ PresentationRefused(q) = ""
    <3> DEFINE d == [aud |-> q.t3.iss, signer |-> q.t3.signer,
                     nonce |-> q.nested.jti, at |-> clock, by |-> generation]
    <3>1. disclosed' = Some(d)
      BY <2>2 DEF DidResolved
    <3>2. q.t3.kid = q.t3.iss /\ q.t3.signer = q.t3.kid
      BY <2>2 DEF PresentationRefused
    <3>3. PICK t \in held : /\ t.jti = q.nested.jti /\ t.to = q.t3.iss
                            /\ t.signer = generation /\ q.arrived < t.exp
      BY DEF TokenInv, Invited
    <3>4. clock < t.exp + ResolutionTimeout
      BY <3>3 DEF TokenInv, Invited, HeldInv
    <3>5. disclosed'[1] = d
      BY <3>1 DEF Some
    <3>6. QED
      BY <1>f, <3>2, <3>3, <3>4, <3>5 DEF PresentedOnlyToInvited
  <2>3. QED
    BY <2>1, <2>2 DEF DidResolved, DidFailed
<1>3. QED
  BY <1>f, <1>1, <1>2 DEF TokenInv, HeldInv, IssuedInv, Records, Outlasting,
     NoLookupForStrangers

\* What a step that mints does: the new token has the next number, and the
\* record of it replaces what has expired and, at the cap, one of the tokens
\* that expire first.
MintsTo(did, entry, token) ==
    /\ entry = [jti |-> Cardinality(held) + 1, provider_did |-> did,
                exp |-> clock + TokenLife]
    /\ token = [jti |-> Cardinality(held) + 1, to |-> did,
                exp |-> clock + TokenLife, signer |-> generation]
    /\ held' = held \cup {token}
    /\ LET live == {e \in issued : e.exp > clock}
       IN  \/ issued' = live \cup {entry}
           \/ /\ Cardinality(live) >= MAX_ISSUED_TOKENS
              /\ \E e \in live : /\ \A f \in live : e.exp <= f.exp
                                 /\ issued' = (live \ {e}) \cup {entry}

\* mint_self_issued_token is such a step.
LEMMA MintIsMint ==
    ASSUME NEW did, mint_self_issued_token(did)
    PROVE  \E entry, token : MintsTo(did, entry, token)
<1> DEFINE entry == [jti |-> Cardinality(held) + 1, provider_did |-> did,
                     exp |-> clock + TokenLife]
           token == [jti |-> Cardinality(held) + 1, to |-> did,
                     exp |-> clock + TokenLife, signer |-> generation]
           live == {e \in issued : e.exp > clock}
<1>1. held' = held \cup {token}
  BY DEF mint_self_issued_token
<1>2. issued' \in remember_issued_capped(Cardinality(held) + 1, did, clock + TokenLife)
  BY DEF mint_self_issued_token
<1>3. CASE Cardinality(live) >= MAX_ISSUED_TOKENS
  <2>1. \E e \in {e \in live : \A f \in live : e.exp <= f.exp} :
            issued' = (live \ {e}) \cup {entry}
    BY <1>2, <1>3 DEF remember_issued_capped
  <2>2. QED
    BY <1>1, <1>3, <2>1 DEF MintsTo
<1>4. CASE ~(Cardinality(live) >= MAX_ISSUED_TOKENS)
  <2>1. issued' = live \cup {entry}
    BY <1>2, <1>4 DEF remember_issued_capped
  <2>2. QED
    BY <1>1, <2>1 DEF MintsTo
<1>5. QED
  BY <1>3, <1>4

\* The new token has a number no other has.
LEMMA MintKeepsHeld ==
    ASSUME HeldInv, NEW did, NEW entry, NEW token, MintsTo(did, entry, token),
           UNCHANGED <<clock, generation>>
    PROVE  /\ HeldInv' /\ token \notin held
           /\ \A t \in held : t.jti # token.jti
           /\ Records(entry, token)
<1> USE HolderAssumption
<1>1. /\ IsFiniteSet(held) /\ Cardinality(held) \in Nat
      /\ clock \in Nat /\ generation \in Nat /\ held' = held \cup {token}
  BY FS_CardinalityType DEF HeldInv, MintsTo
<1>2. /\ token.jti = Cardinality(held) + 1 /\ token.exp = clock + TokenLife
      /\ token.signer = generation /\ token.to = did
      /\ entry.jti = Cardinality(held) + 1 /\ entry.exp = clock + TokenLife
      /\ entry.provider_did = did
  BY DEF MintsTo
<1>3. \A t \in held : t.jti # token.jti
  BY <1>1, <1>2 DEF HeldInv
<1>4. IsFiniteSet(held') /\ Cardinality(held') = Cardinality(held) + 1
  BY <1>1, <1>3, FS_AddElement
<1>5. ASSUME NEW t \in held'
      PROVE  /\ t.jti \in 1..Cardinality(held')
             /\ t.exp \in Nat /\ t.exp <= clock' + TokenLife
             /\ t.signer \in Nat /\ t.signer <= generation'
  BY <1>1, <1>2, <1>4 DEF HeldInv
<1>6. \A t, u \in held' : t.jti = u.jti => t = u
  BY <1>1, <1>3 DEF HeldInv
<1>7. HeldInv'
  BY <1>1, <1>4, <1>5, <1>6 DEF HeldInv
<1>8. QED
  BY <1>2, <1>3, <1>7 DEF Records

\* The token that the cap pushes out is outlasted by as many tokens as are
\* remembered after it: the ones that were live, none of which expires sooner,
\* and the new one, which expires last.
LEMMA PushedOutIsOutlasted ==
    ASSUME HeldInv, IssuedInv, NEW did, NEW entry, NEW token,
           MintsTo(did, entry, token), UNCHANGED <<clock, generation>>,
           NEW live, live = {e \in issued : e.exp > clock},
           Cardinality(live) >= MAX_ISSUED_TOKENS,
           NEW out \in live, \A f \in live : out.exp <= f.exp,
           NEW t \in held, Records(out, t)
    PROVE  Cardinality(Outlasting(t)') >= MAX_ISSUED_TOKENS
<1> USE HolderAssumption
<1> DEFINE kept == (live \ {out}) \cup {entry}
           later == Outlasting(t)'
           f == [e \in kept |-> CHOOSE u \in later : u.jti = e.jti]
<1>1. /\ HeldInv' /\ Records(entry, token) /\ held' = held \cup {token}
      /\ \A u \in held : u.jti # token.jti
  BY MintKeepsHeld DEF MintsTo
<1>2. IsFiniteSet(live) /\ Cardinality(live) \in Nat
  BY FS_Subset, FS_CardinalityType DEF IssuedInv
<1>3. \A e \in live : e.jti # entry.jti
  BY <1>1 DEF IssuedInv, Records
<1>4. IsFiniteSet(kept) /\ Cardinality(kept) = Cardinality(live)
  <2> DEFINE rest == live \ {out}
  <2>1. IsFiniteSet(rest) /\ Cardinality(rest) = Cardinality(live) - 1
    BY <1>2, FS_RemoveElement
  <2>2. entry \notin rest /\ kept = rest \cup {entry}
    BY <1>3
  <2> HIDE DEF rest, kept
  <2>3. Cardinality(kept) = Cardinality(rest) + 1 /\ IsFiniteSet(kept)
    BY <2>1, <2>2, FS_AddElement
  <2>4. QED
    BY <1>2, <2>1, <2>3
<1>5. ASSUME NEW e \in kept
      PROVE  \E u \in later : u.jti = e.jti
  <2>1. t.exp \in Nat /\ t.exp <= clock + TokenLife
    BY DEF HeldInv
  <2>2. CASE e = entry
    <3>1. token \in held' /\ token # t /\ token.jti = e.jti
      BY <1>1, <2>2 DEF Records
    <3>2. token.exp >= t.exp /\ token.signer = generation'
      BY <2>1 DEF MintsTo
    <3>3. QED
      BY <3>1, <3>2 DEF Outlasting
  <2>3. CASE e \in live /\ e # out
    <3>1. PICK u \in held : Records(e, u)
      BY <2>3 DEF IssuedInv
    <3>2. u # t
      <4>1. e.jti # out.jti
        BY <2>3 DEF IssuedInv
      <4>2. QED
        BY <3>1, <4>1 DEF Records
    <3>3. out.exp <= e.exp
      BY <2>3
    <3>4. u.exp >= t.exp /\ u.signer = generation'
      BY <3>1, <3>3 DEF Records, HeldInv
    <3>5. QED
      BY <1>1, <3>1, <3>2, <3>4 DEF Outlasting, Records
  <2>4. QED
    BY <2>2, <2>3
<1>6. f \in [kept -> later] /\ \A e \in kept : f[e].jti = e.jti
  BY <1>5
<1>7. \A e, g \in kept : e.jti = g.jti => e = g
  BY <1>3 DEF IssuedInv
<1>8. f \in Injection(kept, later)
  <2> HIDE DEF f, kept, later
  <2>1. \A e, g \in kept : f[e] = f[g] => e = g
    BY <1>6, <1>7
  <2>2. QED
    BY <1>6, <2>1 DEF Injection, IsInjective
<1>9. IsFiniteSet(later)
  <2>1. later \subseteq held'
    BY DEF Outlasting
  <2>2. QED
    BY <1>1, <2>1, FS_Subset DEF HeldInv
<1>10. Cardinality(kept) <= Cardinality(later) /\ Cardinality(later) \in Nat
  <2> HIDE DEF f, kept, later
  <2>1. QED
    BY <1>8, <1>9, FS_Injection, FS_CardinalityType
<1>11. QED
  BY <1>2, <1>4, <1>10

\* Minting a token keeps what is known of all of them.
LEMMA MintKeepsTokens ==
    ASSUME TokenInv, NEW did, mint_self_issued_token(did),
           UNCHANGED <<clock, generation, resolved, pending, disclosed>>
    PROVE  TokenInv'
<1> USE HolderAssumption
<1> DEFINE live == {e \in issued : e.exp > clock}
<1>h. HeldInv /\ IssuedInv
  BY DEF TokenInv
<1>1. PICK entry, token : MintsTo(did, entry, token)
  BY MintIsMint
<1>2. /\ HeldInv' /\ Records(entry, token) /\ held' = held \cup {token}
      /\ token \notin held /\ \A u \in held : u.jti # token.jti
  BY <1>1, <1>h, MintKeepsHeld DEF MintsTo
<1>3. /\ issued' \subseteq live \cup {entry} /\ entry \in issued'
      /\ IsFiniteSet(issued')
  <2>1. /\ issued' \subseteq live \cup {entry} /\ entry \in issued'
        /\ live \subseteq issued
    BY <1>1 DEF MintsTo
  <2>2. IsFiniteSet(live)
    BY <1>h, <2>1, FS_Subset DEF IssuedInv
  <2>3. IsFiniteSet(live \cup {entry})
    BY <2>2, FS_AddElement
  <2>4. QED
    BY <2>1, <2>3, FS_Subset
<1>4. \A e \in issued' : \E t \in held' : Records(e, t)'
  BY <1>2, <1>3, <1>h DEF IssuedInv, Records
<1>5. \A e, f \in issued' : e.jti = f.jti => e = f
  <2>1. \A e \in live : e.jti # entry.jti
    BY <1>2, <1>h DEF IssuedInv, Records
  <2>2. QED
    BY <1>3, <2>1, <1>h DEF IssuedInv
<1>6. ASSUME NEW t \in held', t.signer = generation', clock' < t.exp
      PROVE  \/ \E e \in issued' : Records(e, t)'
             \/ Cardinality(Outlasting(t)') >= MAX_ISSUED_TOKENS
  <2>1. CASE t = token
    BY <1>2, <1>3, <2>1 DEF Records
  <2>2. CASE t \in held /\ Cardinality(Outlasting(t)) >= MAX_ISSUED_TOKENS
    <3>1. Outlasting(t) \subseteq Outlasting(t)'
      BY <1>2 DEF Outlasting
    <3>2. IsFiniteSet(Outlasting(t)')
      <4>1. Outlasting(t)' \subseteq held'
        BY DEF Outlasting
      <4>2. QED
        BY <1>2, <4>1, FS_Subset DEF HeldInv
    <3>3. /\ Cardinality(Outlasting(t)) <= Cardinality(Outlasting(t)')
          /\ Cardinality(Outlasting(t)) \in Nat
          /\ Cardinality(Outlasting(t)') \in Nat
      BY <3>1, <3>2, FS_Subset, FS_CardinalityType
    <3>4. QED
      BY <2>2, <3>3
  <2>3. CASE t \in held /\ \E e \in issued : Records(e, t)
    <3>1. PICK e \in issued : Records(e, t)
      BY <2>3
    <3>2. e \in live
      BY <1>6, <2>3, <3>1, <1>h DEF Records, HeldInv
    <3>3. CASE e \in issued'
      BY <3>1, <3>3 DEF Records
    <3>4. CASE e \notin issued'
      <4>1. /\ Cardinality(live) >= MAX_ISSUED_TOKENS
            /\ \A f \in live : e.exp <= f.exp
        BY <1>1, <3>2, <3>4 DEF MintsTo
      <4> HIDE DEF live
      <4>2. Cardinality(Outlasting(t)') >= MAX_ISSUED_TOKENS
        BY <1>1, <1>h, <2>3, <3>1, <3>2, <4>1, PushedOutIsOutlasted DEF live
      <4>3. QED
        BY <4>2
    <3>5. QED
      BY <3>3, <3>4
  <2>4. QED
    BY <1>2, <1>6, <1>h, <2>1, <2>2, <2>3 DEF IssuedInv
<1>7. IssuedInv'
  BY <1>3, <1>4, <1>5, <1>6 DEF IssuedInv
<1>8. \A q \in pending' : Invited(q)'
  BY <1>2 DEF TokenInv, Invited
<1>9. PresentedOnlyToInvited' /\ NoLookupForStrangers'
  BY <1>2 DEF TokenInv, PresentedOnlyToInvited, NoLookupForStrangers
<1>10. QED
  BY <1>2, <1>7, <1>8, <1>9 DEF TokenInv

\* TokenInv holds in every reachable state.
THEOREM TokensAccountedFor == Spec => []TokenInv
<1>1. Init => TokenInv
  <2> SUFFICES ASSUME Init PROVE TokenInv
    OBVIOUS
  <2>f. /\ clock = 0 /\ generation = 1 /\ held = {} /\ issued = {} /\ pending = {}
        /\ resolved = {} /\ disclosed = None
    BY DEF Init
  <2>1. HeldInv /\ IssuedInv
    BY <2>f, FS_EmptySet DEF HeldInv, IssuedInv
  <2>2. QED
    BY <2>f, <2>1 DEF TokenInv, PresentedOnlyToInvited, NoLookupForStrangers
<1>2. TokenInv /\ [Next]_vars => TokenInv'
  <2> SUFFICES ASSUME TokenInv, [Next]_vars PROVE TokenInv'
    OBVIOUS
  <2>1. ASSUME NEW jwks, Boot(jwks) PROVE TokenInv'
    BY <2>1, TokensUntouched DEF Boot, crawls, callbacks, tokenVars
  <2>2. ASSUME NEW s, CrawlDcp(s) PROVE TokenInv'
    <3>1. UNCHANGED <<generation, clock, resolved, pending, disclosed>>
      BY <2>2 DEF CrawlDcp, boot, callbacks
    <3>2. CASE UNCHANGED <<issued, held>>
      BY <3>1, <3>2, TokensUntouched DEF tokenVars
    <3>3. CASE \E did : mint_self_issued_token(did)
      BY <3>1, <3>3, MintKeepsTokens
    <3>4. QED
      BY <2>2, <3>2, <3>3 DEF CrawlDcp
  <2>3. ASSUME NEW s, \/ CrawlOpen(s) \/ CrawlOid4Vp(s) \/ Presented(s)
                      \/ CrawlEnds(s) \/ \E target \in Targets : Redirected(s, target)
        PROVE  TokenInv'
    BY <2>3, TokensUntouched DEF CrawlOpen, CrawlOid4Vp, Presented, CrawlEnds,
       Redirected, boot, callbacks, tokenVars
  <2>4. CASE UNCHANGED vars
    BY <2>4, TokensUntouched DEF vars, tokenVars
  <2>5. QED
    BY <2>1, <2>2, <2>3, <2>4, RestartKeepsTokens, TickKeepsTokens,
       QueryKeepsTokens, LookupEndsKeepsTokens DEF Next
<1>3. QED
  BY <1>1, <1>2, PTL DEF Spec

\* A presentation is given only to the party that holds the key of the DID this
\* process minted the nested token for, no later than one DID lookup after the
\* token expired, for every number of providers, tokens and restarts.
THEOREM OnlyInvitedArePresentedTo == Spec => []PresentedOnlyToInvited
<1>1. TokenInv => PresentedOnlyToInvited
  BY DEF TokenInv
<1>2. QED
  BY <1>1, TokensAccountedFor, PTL

\* No DID is looked up but one a token was minted for.
THEOREM StrangersAreNotLookedUp == Spec => []NoLookupForStrangers
<1>1. TokenInv => NoLookupForStrangers
  BY DEF TokenInv
<1>2. QED
  BY <1>1, TokensAccountedFor, PTL

\* A provider that calls back in time with its own token is refused only if its
\* DID cannot be read or as many tokens as the cap allows outlast its own.
THEOREM GenuineCallbacksAreAnswered == Spec => []GenuineCallbackAnswered
<1> USE HolderAssumption
<1> DEFINE genuine(t2) == [iss |-> t2.to, kid |-> t2.to, signer |-> t2.to,
                           aud |-> OwnDid, life |-> ResolutionTimeout + 1]
<1>1. ASSUME TokenInv, NEW t2 \in held, t2.signer = generation, clock < t2.exp,
             \E e \in issued : Records(e, t2)
      PROVE  QueryRefused(genuine(t2), Some(t2)) \in {"", "DID"}
  <2>1. t2.jti # 0 /\ t2.to \in issued_to(t2.jti)
    <3>1. PICK e \in issued : Records(e, t2)
      BY <1>1
    <3>2. e.jti = t2.jti /\ e.exp > clock /\ e.provider_did = t2.to
      BY <1>1, <3>1 DEF Records, TokenInv, HeldInv
    <3>3. t2.jti # 0
      BY <1>1 DEF TokenInv, HeldInv
    <3>4. QED
      BY <3>2, <3>3 DEF issued_to
  <2>2. NestedRefused(genuine(t2), Some(t2)) = ""
    <3>1. /\ Some(t2) # None /\ Some(t2)[1] = t2 /\ genuine(t2).iss = t2.to
      BY DEF Some, None
    <3>2. QED
      BY <1>1, <2>1, <3>1 DEF NestedRefused
  <2>3. QED
    BY <2>2 DEF QueryRefused
<1>2. ASSUME TokenInv, NEW q \in pending, q.t3 = genuine(q.nested)
      PROVE  PresentationRefused(q) = ""
  <2>1. /\ q.t3.kid = q.t3.iss /\ q.t3.signer = q.t3.kid /\ q.t3.aud = OwnDid
        /\ q.t3.life = ResolutionTimeout + 1
    BY <1>2
  <2>2. ~(q.arrived + q.t3.life <= clock)
    BY <1>2, <2>1 DEF TokenInv, Invited, HeldInv
  <2>3. QED
    BY <2>1, <2>2 DEF PresentationRefused
<1>3. TokenInv => GenuineCallbackAnswered
  BY <1>1, <1>2 DEF GenuineCallbackAnswered, TokenInv, IssuedInv, Outlasting
<1>4. QED
  BY <1>3, TokensAccountedFor, PTL

-----------------------------------------------------------------------------
(* What an accepted configuration guarantees the crawls. *)

\* Where a participant's credentials go is https or this machine.
EndpointsAllowed(p) ==
    /\ p.catalog_request_url \in DOMAIN UrlOf
    /\ p.credential_protocol # "none" => remote_allowed(UrlOf[p.catalog_request_url])
    /\ p.oid4vp_response_uri # None =>
          /\ p.oid4vp_response_uri[1] \in DOMAIN UrlOf
          /\ remote_allowed(UrlOf[p.oid4vp_response_uri[1]])

\* The participants have what their protocol needs.
CrawlerComplete(crawler) ==
    crawler # None =>
        \A s \in DOMAIN crawler[1].participants :
            LET p == crawler[1].participants[s]
            IN /\ EndpointsAllowed(p)
               /\ p.credential_protocol = "dcp" => p.provider_did # None
               /\ p.credential_protocol = "oid4vp" => p.oid4vp_response_uri # None
               /\ p.credential_protocol # "none" => crawler[1].holder # None

\* Nothing on the way to the document is fetched in the open.
ChainAllowed(chain) ==
    \A i \in DOMAIN chain :
        chain[i] \in DOMAIN UrlOf
            => UrlOf[chain[i]].scheme = "file" \/ remote_allowed(UrlOf[chain[i]])

LoadedWell(loaded) ==
    loaded # None =>
        CrawlerComplete(loaded[1].settings.crawler) /\ ChainAllowed(loaded[1].chain)

\* What an option is made of.
LEMMA Options == \A x : Some(x) # None /\ Some(x)[1] = x
BY DEF Some, None

\* read_participant refuses an endpoint that is not allowed.
LEMMA ReadParticipantAllowed ==
    ASSUME NEW g, NEW s, read_participant(g, s) # None
    PROVE  EndpointsAllowed(read_participant(g, s)[1])
<1> DEFINE protocol == OrElse(optional(g, s, "credentialProtocol"), "none")
           url == optional(g, s, "catalogRequestUrl")
           uri == optional(g, s, "oid4vpResponseUri")
           p == read_participant(g, s)[1]
<1>1. /\ url # None
      /\ optional_endpoint_url(url, protocol # "none")
      /\ optional_endpoint_url(uri, TRUE)
  BY DEF read_participant
<1>2. PICK id, name, did :
         read_participant(g, s) =
             Some([id |-> id, name |-> name, catalog_request_url |-> url[1],
                   credential_protocol |-> protocol, provider_did |-> did,
                   oid4vp_response_uri |-> uri])
  <2> WITNESS optional(g, s, "participantId")[1], optional(g, s, "participantName")[1],
              optional(g, s, "providerDid")
  <2> QED
    BY DEF read_participant
<1> HIDE DEF protocol, url, uri
<1>3. /\ p.catalog_request_url = url[1] /\ p.credential_protocol = protocol
      /\ p.oid4vp_response_uri = uri
  BY <1>2 DEF Some
<1> HIDE DEF p
<1>4. QED
  BY <1>1, <1>3 DEF EndpointsAllowed, optional_endpoint_url, p

\* read_crawler accepts only participants that have what they need.
LEMMA ReadCrawlerComplete ==
    ASSUME NEW g, NEW values, NEW participants, NEW holders,
           read_crawler(g, values, participants, holders) # None
    PROVE  CrawlerComplete(read_crawler(g, values, participants, holders)[1])
<1> DEFINE holder0 == IF holders = {} THEN None
                      ELSE read_holder(g, CHOOSE h \in holders : TRUE)
           read == [s \in participants |-> read_participant(g, s)[1]]
           crawler == read_crawler(g, values, participants, holders)[1]
<1>1. /\ \A s \in participants : read_participant(g, s) # None
      /\ participants # {} => ParticipantsConfig(read, holder0)
  BY DEF read_crawler
<1>2. ASSUME crawler # None
      PROVE  /\ participants # {}
             /\ crawler[1].participants = read /\ crawler[1].holder = holder0
  BY <1>2, Options DEF read_crawler
<1> HIDE DEF holder0, crawler
<1>3. ASSUME crawler # None, NEW s \in participants
      PROVE  LET p == read[s]
             IN /\ EndpointsAllowed(p)
                /\ p.credential_protocol = "dcp" => p.provider_did # None
                /\ p.credential_protocol = "oid4vp" => p.oid4vp_response_uri # None
                /\ p.credential_protocol # "none" => holder0 # None
  <2>1. EndpointsAllowed(read[s])
    BY <1>1, <1>3, ReadParticipantAllowed
  <2>2. ParticipantsConfig(read, holder0) /\ s \in DOMAIN read
    BY <1>1, <1>2, <1>3
  <2> HIDE DEF read
  <2>3. QED
    BY <2>1, <2>2 DEF ParticipantsConfig
<1>4. QED
  BY <1>2, <1>3 DEF CrawlerComplete, crawler

\* So does from_graph.
LEMMA FromGraphComplete ==
    ASSUME NEW g, from_graph(g) # None
    PROVE  CrawlerComplete(from_graph(g)[1].crawler)
<1> DEFINE configs == subjects_of_type(g, "BrokerConfig")
           config0 == CHOOSE s \in configs : TRUE
           set == properties(g, config0) \ {"participant", "holder"}
           values == [p \in set |-> The(g, config0, p)[1].v]
           participants == Values(g, config0, "participant")
           holders == Values(g, config0, "holder")
           crawler == read_crawler(g, values, participants, holders)
<1>1. CASE configs = {}
  <2>1. from_graph(g) = Some(NoSettings)
    BY <1>1 DEF from_graph
  <2>2. QED
    BY <2>1, Options DEF NoSettings, CrawlerComplete
<1>2. CASE configs # {}
  <2>1. /\ crawler # None
        /\ from_graph(g) = Some([values |-> values, crawler |-> crawler[1]])
    BY <1>2 DEF from_graph
  <2>2. CrawlerComplete(crawler[1])
    BY <2>1, ReadCrawlerComplete
  <2> HIDE DEF crawler, values
  <2>3. from_graph(g)[1].crawler = crawler[1]
    BY <2>1, Options
  <2>4. QED
    BY <2>2, <2>3
<1>3. QED
  BY <1>1, <1>2

\* A remote document is reached over allowed URLs only, redirects included.
LEMMA FetchAllowed ==
    ASSUME NEW w, NEW at \in DOMAIN UrlOf, remote_allowed(UrlOf[at]),
           FetchConfig(w, at) # None
    PROVE  ChainAllowed(FetchConfig(w, at)[1])
<1> DEFINE chains == {c \in UNION {[1..k -> DOMAIN UrlOf] : k \in 1..(MaxRedirects + 1)} :
                        c[1] = at /\ Followed(w, c)}
           c == FetchConfig(w, at)[1]
<1>1. c \in chains
  BY Options DEF FetchConfig
<1> HIDE DEF c
<1>2. PICK k \in 1..(MaxRedirects + 1) : c \in [1..k -> DOMAIN UrlOf]
  BY <1>1
<1>3. k \in Nat /\ Len(c) = k /\ DOMAIN c = 1..k
  BY <1>2, ConfigAssumption
<1>4. ASSUME NEW i \in 1..k PROVE remote_allowed(UrlOf[c[i]])
  <2>1. CASE i = 1
    BY <1>1, <2>1
  <2>2. CASE i # 1
    <3>1. i - 1 \in 1..(Len(c) - 1) /\ (i - 1) + 1 = i
      BY <1>3, <2>2
    <3>2. Followed(w, c)
      BY <1>1
    <3>3. ConfigRedirect(SubSeq(c, 1, i - 1), UrlOf[c[i]])
      BY <3>1, <3>2 DEF Followed
    <3>4. QED
      BY <3>3 DEF ConfigRedirect
  <2>3. QED
    BY <2>1, <2>2
<1>5. QED
  BY <1>3, <1>4 DEF ChainAllowed, c

\* What load accepts is complete and was not fetched in the open.
LEMMA LoadWell == \A w : LoadedWell(load(w))
<1> SUFFICES ASSUME NEW w, load(w) # None PROVE LoadedWell(load(w))
  BY DEF LoadedWell
<1> DEFINE location == IF w.env # None THEN parse(w.env[1])
                       ELSE Some([remote |-> FALSE, at |-> "default"])
           chain == from_location(w, location[1])
           graph == w.documents[chain[1][Len(chain[1])]]
<1>1. CASE w.env = None /\ "default" \notin DOMAIN w.documents
  <2>1. load(w) = Some([chain |-> <<>>, settings |-> NoSettings])
    BY <1>1 DEF load
  <2>2. load(w)[1].chain = <<>> /\ load(w)[1].settings.crawler = None
    BY <2>1, Options DEF NoSettings
  <2>3. QED
    BY <2>2 DEF LoadedWell, CrawlerComplete, ChainAllowed
<1>2. CASE ~(w.env = None /\ "default" \notin DOMAIN w.documents)
  <2>1. /\ location # None /\ chain # None /\ from_graph(graph) # None
        /\ load(w) = Some([chain |-> chain[1], settings |-> from_graph(graph)[1]])
    BY <1>2 DEF load
  <2>2. CrawlerComplete(from_graph(graph)[1].crawler)
    BY <2>1, FromGraphComplete
  <2>3. ChainAllowed(chain[1])
    <3>1. CASE w.env = None
      <4>1. chain = Some(<<"default">>)
        BY <3>1, Options DEF from_location
      <4>2. chain[1] = <<"default">>
        BY <4>1, Options
      <4>3. QED
        BY <4>2, ConfigAssumption DEF ChainAllowed
    <3>2. CASE w.env # None
      <4> DEFINE raw == w.env[1]
      <4>1. location = parse(raw)
        BY <3>2
      <4>2. CASE raw \notin DOMAIN UrlOf \/ UrlOf[raw].scheme = "file"
        <5>1. parse(raw) = Some([remote |-> FALSE, at |-> raw])
          BY <2>1, <4>1, <4>2 DEF parse
        <5>2. chain[1] = <<raw>>
          BY <4>1, <5>1, Options DEF from_location
        <5>3. QED
          BY <4>2, <5>2 DEF ChainAllowed
      <4>3. CASE ~(raw \notin DOMAIN UrlOf \/ UrlOf[raw].scheme = "file")
        <5>1. /\ remote_allowed(UrlOf[raw])
              /\ parse(raw) = Some([remote |-> TRUE, at |-> raw])
          BY <2>1, <4>1, <4>3 DEF parse
        <5>2. chain = FetchConfig(w, raw)
          BY <4>1, <5>1, Options DEF from_location
        <5>3. QED
          BY <2>1, <4>3, <5>1, <5>2, FetchAllowed
      <4>4. QED
        BY <4>2, <4>3
    <3>3. QED
      BY <3>1, <3>2
  <2> HIDE DEF chain, graph
  <2>4. load(w)[1].chain = chain[1] /\ load(w)[1].settings = from_graph(graph)[1]
    BY <2>1, Options
  <2>5. QED
    BY <2>2, <2>3, <2>4 DEF LoadedWell
<1>3. QED
  BY <1>1, <1>2

-----------------------------------------------------------------------------
(* The crawls of a broker that was started from an accepted configuration. *)

Urls == {UrlOf[u] : u \in DOMAIN UrlOf}
AllAt(urls, url) == \A i \in DOMAIN urls : urls[i] = url

\* Only a broker that is up has a configuration, and its holder is that one's.
BootInv ==
    /\ phase # "up" => config = None /\ \A s \in Nodes : crawl[s] = Idle
    /\ LoadedWell(config)
    /\ config # None =>
          holder = IF config[1].settings.crawler = None THEN None
                   ELSE config[1].settings.crawler[1].holder

\* A request has gone to its participant's endpoint only, which is allowed if it
\* carries a credential; and one that presents the credential will go on, with the
\* access token, to such an endpoint.
CrawlFits(s) ==
    crawl[s] # Idle =>
        /\ s \in DOMAIN Participants
        /\ Len(crawl[s].previous) > 0 /\ AllAt(crawl[s].previous, Endpoint(s))
        /\ crawl[s].what # "placeholder" => remote_allowed(Endpoint(s))
        /\ crawl[s].at = "presenting" => Participants[s].credential_protocol = "oid4vp"

Carried == {"", "placeholder", "self-issued token", "vp_token", "access token"}
CrawlStates ==
    [at : {"idle", "requesting", "presenting"}, previous : Seq(Urls), what : Carried]
CrawlTypeOK == crawl \in [Nodes -> CrawlStates]

ConfigInv ==
    /\ CrawlTypeOK
    /\ BootInv
    /\ unfit = [s \in Nodes |-> ""]
    /\ \A s \in Nodes : CrawlFits(s)

\* A participant of an accepted configuration has what its crawl asks for.
LEMMA ParticipantFits ==
    ASSUME BootInv, NEW s \in DOMAIN Participants
    PROVE  LET p == Participants[s]
           IN /\ EndpointsAllowed(p)
              /\ p.credential_protocol = "dcp" => p.provider_did # None
              /\ p.credential_protocol = "oid4vp" => p.oid4vp_response_uri # None
              /\ p.credential_protocol # "none" => holder # None
<1>1. config # None /\ config[1].settings.crawler # None
  BY DEF Participants
<1>2. /\ Participants = config[1].settings.crawler[1].participants
      /\ holder = config[1].settings.crawler[1].holder
  BY <1>1 DEF Participants, BootInv
<1>3. CrawlerComplete(config[1].settings.crawler)
  BY <1>1 DEF BootInv, LoadedWell
<1>4. QED
  BY <1>1, <1>2, <1>3 DEF CrawlerComplete

\* A request is first sent to its participant's endpoint, where what it carries may
\* go.
LEMMA SendFits ==
    ASSUME ConfigInv, NEW s \in DOMAIN Participants \cap Nodes, NEW url \in Urls,
           NEW what \in Carried, Send(s, url, what), phase = "up",
           UNCHANGED <<boot, unfit>>,
           what # "placeholder" => remote_allowed(url),
           what = "vp_token" => /\ Participants[s].credential_protocol = "oid4vp"
                                /\ url = UrlOf[Participants[s].oid4vp_response_uri[1]],
           what # "vp_token" => url = UrlOf[Participants[s].catalog_request_url]
    PROVE  ConfigInv'
<1> DEFINE new == [at |-> IF what = "vp_token" THEN "presenting" ELSE "requesting",
                   previous |-> <<url>>, what |-> what]
<1>0. <<url>> \in Seq(Urls) /\ Len(<<url>>) > 0 /\ AllAt(<<url>>, url)
  BY DEF AllAt
<1>1. /\ crawl' = [crawl EXCEPT ![s] = new] /\ CrawlTypeOK
      /\ new \in CrawlStates
  <2>1. crawl' = [crawl EXCEPT ![s] = new] /\ CrawlTypeOK
    BY DEF Send, ConfigInv
  <2>2. new \in CrawlStates
    BY <1>0 DEF CrawlStates
  <2>3. QED
    BY <2>1, <2>2
<1>2. /\ new.previous = <<url>> /\ new.what = what
      /\ new.at = IF what = "vp_token" THEN "presenting" ELSE "requesting"
  OBVIOUS
<1> HIDE DEF new
<1>3. CrawlTypeOK' /\ \A t \in Nodes : crawl'[t] = IF t = s THEN new ELSE crawl[t]
  BY <1>1 DEF CrawlTypeOK
<1>4. BootInv' /\ Participants' = Participants /\ unfit' = unfit
  BY DEF ConfigInv, BootInv, boot, Participants
<1>5. ASSUME NEW t \in Nodes PROVE CrawlFits(t)'
  <2>1. CASE t = s
    <3>1. Endpoint(s)' = url
      BY <1>2, <1>3, <1>4 DEF Endpoint
    <3>2. QED
      BY <1>0, <1>2, <1>3, <1>4, <2>1, <3>1 DEF CrawlFits
  <2>2. CASE t # s
    BY <1>3, <1>4, <2>2 DEF ConfigInv, CrawlFits, Endpoint
  <2>3. QED
    BY <2>1, <2>2
<1>6. QED
  BY <1>3, <1>4, <1>5 DEF ConfigInv

\* A crawl that is over has sent nothing.
LEMMA IdleFits ==
    ASSUME ConfigInv, NEW s \in Nodes, Ends(s), UNCHANGED <<boot, unfit>>
    PROVE  ConfigInv'
<1>1. Idle \in CrawlStates
  <2>1. <<>> \in Seq(Urls)
    OBVIOUS
  <2>2. QED
    BY <2>1 DEF Idle, CrawlStates, Carried
<1>3. CrawlTypeOK' /\ \A t \in Nodes : crawl'[t] = IF t = s THEN Idle ELSE crawl[t]
  BY <1>1 DEF Ends, ConfigInv, CrawlTypeOK
<1>4. BootInv' /\ Participants' = Participants /\ unfit' = unfit
  BY <1>3 DEF ConfigInv, BootInv, boot, Participants
<1>5. ASSUME NEW t \in Nodes PROVE CrawlFits(t)'
  BY <1>3, <1>4 DEF ConfigInv, CrawlFits, Endpoint
<1>6. QED
  BY <1>3, <1>4, <1>5 DEF ConfigInv

\* A redirect is followed only to where the request already is.
LEMMA RedirectFits ==
    ASSUME ConfigInv, NEW s \in Nodes, NEW target \in Targets, Redirected(s, target)
    PROVE  ConfigInv'
<1> DEFINE before == crawl[s].previous
           after == Append(before, UrlOf[target])
<1>1. UNCHANGED <<boot, unfit>> /\ crawl[s] # Idle
  BY DEF Redirected
<1>2. CASE OutboundRedirect(before, UrlOf[target])
  <2>1. crawl' = [crawl EXCEPT ![s].previous = after]
    BY <1>2 DEF Redirected
  <2>2. before \in Seq(Urls) /\ Len(before) > 0 /\ UrlOf[target] \in Urls
    BY <1>1, HolderAssumption DEF ConfigInv, CrawlTypeOK, CrawlStates, CrawlFits, Urls
  <2>3. before[Len(before)] = UrlOf[target]
    BY <1>2 DEF OutboundRedirect
  <2>4. /\ after \in Seq(Urls) /\ Len(after) > 0
        /\ \A url : AllAt(before, url) => AllAt(after, url)
    BY <2>2, <2>3 DEF AllAt
  <2> HIDE DEF after
  <2>5. /\ CrawlTypeOK'
        /\ \A t \in Nodes : t # s => crawl'[t] = crawl[t]
        /\ crawl'[s].previous = after /\ crawl'[s].what = crawl[s].what
        /\ crawl'[s].at = crawl[s].at
    BY <2>1, <2>4 DEF ConfigInv, CrawlTypeOK, CrawlStates
  <2>0. phase = "up"
    BY <1>1 DEF ConfigInv, BootInv
  <2>b. BootInv' /\ Participants' = Participants
    BY <1>1, <2>0 DEF ConfigInv, BootInv, boot, Participants
  <2>c. \A t \in Nodes : Endpoint(t)' = Endpoint(t)
    BY <1>1, <2>b, <2>5 DEF Endpoint
  <2>6. CrawlFits(s)'
    BY <1>1, <2>b, <2>c, <2>2, <2>4, <2>5 DEF ConfigInv, CrawlFits
  <2>7. \A t \in Nodes : t # s => CrawlFits(t)'
    BY <2>b, <2>c, <2>5 DEF ConfigInv, CrawlFits
  <2>8. QED
    BY <1>1, <2>b, <2>5, <2>6, <2>7 DEF ConfigInv
<1>3. CASE ~OutboundRedirect(before, UrlOf[target])
  BY <1>1, <1>3, IdleFits DEF Redirected
<1>4. QED
  BY <1>2, <1>3

\* A crawl starts with what its protocol needs, and goes to an allowed URL.
LEMMA CrawlStarts ==
    ASSUME ConfigInv, NEW s \in Nodes, CrawlOpen(s) \/ CrawlDcp(s) \/ CrawlOid4Vp(s)
    PROVE  ConfigInv'
<1> DEFINE p == Participants[s]
<1>1. /\ phase = "up" /\ s \in DOMAIN Participants /\ BootInv /\ UNCHANGED boot
      /\ unfit = [t \in Nodes |-> ""]
  BY DEF CrawlOpen, CrawlDcp, CrawlOid4Vp, Starts, ConfigInv
<1>2. /\ EndpointsAllowed(p) /\ UrlOf[p.catalog_request_url] \in Urls
      /\ p.credential_protocol = "dcp" => p.provider_did # None
      /\ p.credential_protocol = "oid4vp" =>
            /\ p.oid4vp_response_uri # None /\ UrlOf[p.oid4vp_response_uri[1]] \in Urls
      /\ p.credential_protocol # "none" => holder # None
  BY <1>1, ParticipantFits DEF EndpointsAllowed, Urls
<1> HIDE DEF p
<1>3. CASE CrawlOpen(s)
  BY <1>1, <1>2, <1>3, SendFits DEF CrawlOpen, Carried, p
<1>4. CASE CrawlDcp(s)
  <2>1. p.credential_protocol = "dcp" /\ remote_allowed(UrlOf[p.catalog_request_url])
    BY <1>2, <1>4 DEF CrawlDcp, Starts, EndpointsAllowed, p
  <2>2. /\ unfit' = [unfit EXCEPT ![s] = ""]
        /\ Send(s, UrlOf[p.catalog_request_url], "self-issued token")
    BY <1>2, <1>4, <2>1 DEF CrawlDcp, p
  <2>3. unfit' = unfit
    BY <1>1, <2>2
  <2>4. QED
    BY <1>1, <1>2, <2>1, <2>2, <2>3, SendFits DEF Carried, p
<1>5. CASE CrawlOid4Vp(s)
  <2>1. /\ p.credential_protocol = "oid4vp"
        /\ remote_allowed(UrlOf[p.oid4vp_response_uri[1]])
    BY <1>2, <1>5 DEF CrawlOid4Vp, Starts, EndpointsAllowed, p
  <2>2. /\ unfit' = [unfit EXCEPT ![s] = ""]
        /\ Send(s, UrlOf[p.oid4vp_response_uri[1]], "vp_token")
    BY <1>2, <1>5, <2>1 DEF CrawlOid4Vp, p
  <2>3. unfit' = unfit
    BY <1>1, <2>2
  <2>4. QED
    BY <1>1, <1>2, <2>1, <2>2, <2>3, SendFits DEF Carried, p
<1>6. QED
  BY <1>3, <1>4, <1>5

\* The access token goes where the participant's catalog is, which is allowed.
LEMMA PresentedFits ==
    ASSUME ConfigInv, NEW s \in Nodes, Presented(s)
    PROVE  ConfigInv'
<1> DEFINE p == Participants[s]
<1>1. /\ s \in DOMAIN Participants /\ p.credential_protocol = "oid4vp" /\ BootInv
      /\ Send(s, UrlOf[p.catalog_request_url], "access token")
      /\ UNCHANGED <<boot, unfit>>
  <2>1. crawl[s] # Idle
    <3>1. Idle.at = "idle"
      BY DEF Idle
    <3>2. crawl[s].at = "presenting"
      BY DEF Presented
    <3>3. QED
      BY <3>1, <3>2
  <2>2. QED
    BY <2>1 DEF Presented, ConfigInv, CrawlFits
<1>2. phase = "up"
  <2>1. DOMAIN Participants # {} /\ BootInv
    BY <1>1
  <2>2. config # None
    BY <2>1 DEF Participants
  <2>3. QED
    BY <2>1, <2>2 DEF BootInv
<1>3. /\ UrlOf[p.catalog_request_url] \in Urls
      /\ remote_allowed(UrlOf[p.catalog_request_url])
  BY <1>1, ParticipantFits DEF EndpointsAllowed, Urls
<1>4. QED
  BY <1>1, <1>2, <1>3, SendFits DEF Carried

\* Boot takes what load accepted, or nothing.
LEMMA BootFits ==
    ASSUME ConfigInv, NEW jwks, Boot(jwks)
    PROVE  ConfigInv'
<1>1. /\ phase = "starting" /\ Start(load(world), jwks) /\ UNCHANGED <<crawl, unfit>>
  BY DEF Boot, crawls
<1>2. BootInv'
  <2>1. /\ phase' = "up" \/ config' = None
        /\ config' \in {None, load(world)}
        /\ config' # None => holder' = IF config'[1].settings.crawler = None THEN None
                                       ELSE config'[1].settings.crawler[1].holder
    BY <1>1 DEF Start
  <2>2. LoadedWell(config')
    BY <2>1, LoadWell DEF LoadedWell
  <2>3. \A s \in Nodes : crawl'[s] = Idle
    BY <1>1 DEF ConfigInv, BootInv
  <2>4. QED
    BY <2>1, <2>2, <2>3 DEF BootInv, LoadedWell
<1>3. ASSUME NEW s \in Nodes PROVE CrawlFits(s)'
  BY <1>1 DEF ConfigInv, BootInv, CrawlFits
<1>4. CrawlTypeOK' /\ unfit' = [s \in Nodes |-> ""]
  BY <1>1 DEF ConfigInv, CrawlTypeOK
<1>5. QED
  BY <1>2, <1>3, <1>4 DEF ConfigInv

\* ConfigInv holds in every reachable state.
THEOREM CrawlsFollowConfig == Spec => []ConfigInv
<1>i. Idle \in CrawlStates
  <2>1. <<>> \in Seq(Urls)
    OBVIOUS
  <2>2. QED
    BY <2>1 DEF Idle, CrawlStates, Carried
<1>1. Init => ConfigInv
  <2> SUFFICES ASSUME Init PROVE ConfigInv
    OBVIOUS
  <2>1. /\ config = None /\ crawl = [s \in Nodes |-> Idle]
        /\ unfit = [s \in Nodes |-> ""]
    BY DEF Init
  <2>2. CrawlTypeOK /\ \A s \in Nodes : CrawlFits(s)
    BY <1>i, <2>1 DEF CrawlTypeOK, CrawlFits
  <2>3. BootInv
    BY <2>1 DEF BootInv, LoadedWell
  <2>4. QED
    BY <2>1, <2>2, <2>3 DEF ConfigInv
<1>2. ConfigInv /\ [Next]_vars => ConfigInv'
  <2> SUFFICES ASSUME ConfigInv, [Next]_vars PROVE ConfigInv'
    OBVIOUS
  <2>1. CASE Restart
    <3>1. /\ config' = None /\ crawl' = [s \in Nodes |-> Idle] /\ unfit' = unfit
      BY <2>1 DEF Restart
    <3>2. CrawlTypeOK' /\ \A s \in Nodes : CrawlFits(s)'
      BY <1>i, <3>1 DEF CrawlTypeOK, CrawlFits
    <3>3. BootInv'
      BY <3>1 DEF BootInv, LoadedWell
    <3>4. QED
      BY <3>1, <3>2, <3>3 DEF ConfigInv
  <2>2. ASSUME NEW s \in Nodes, CrawlEnds(s) PROVE ConfigInv'
    BY <2>2, IdleFits DEF CrawlEnds
  <2>3. ASSUME UNCHANGED <<boot, crawl, unfit>> PROVE ConfigInv'
    BY <2>3 DEF boot, ConfigInv, CrawlTypeOK, BootInv, CrawlFits, Endpoint, Participants
  <2>4. CASE Tick
    BY <2>3, <2>4 DEF Tick, crawls
  <2>5. ASSUME NEW t3, NEW nested, holder_presentation_query_route(t3, nested)
        PROVE  ConfigInv'
    BY <2>3, <2>5 DEF holder_presentation_query_route, crawls
  <2>6. ASSUME NEW q, DidResolved(q) \/ DidFailed(q) PROVE ConfigInv'
    BY <2>3, <2>6 DEF DidResolved, DidFailed, crawls
  <2>7. CASE UNCHANGED vars
    BY <2>3, <2>7 DEF vars, boot
  <2>8. QED
    BY <2>1, <2>2, <2>4, <2>5, <2>6, <2>7, BootFits, CrawlStarts, PresentedFits,
       RedirectFits DEF Next
<1>3. QED
  BY <1>1, <1>2, PTL DEF Spec

\* A configuration that was accepted is enough: no crawl ever fails for want of
\* a holder, a provider DID or a response URI, whatever the documents say.
THEOREM AcceptedConfigSuffices == Spec => []ConfigSufficesForCrawls
<1>1. ConfigInv => ConfigSufficesForCrawls
  BY DEF ConfigInv, ConfigSufficesForCrawls
<1>2. QED
  BY <1>1, CrawlsFollowConfig, PTL

\* What a crawl sends goes to the origin its configuration names and, whatever the
\* redirects, to no other; with a credential that is https or this machine, and so
\* is every location of the document that says where.
THEOREM CredentialsGoToAllowed == Spec => []CredentialsOnlyToAllowed
<1>1. ConfigInv => CredentialsOnlyToAllowed
  BY DEF ConfigInv, CrawlFits, AllAt, BootInv, LoadedWell, ChainAllowed,
     CredentialsOnlyToAllowed
<1>2. QED
  BY <1>1, CrawlsFollowConfig, PTL
==============================================================================
