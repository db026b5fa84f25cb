-------------------------- MODULE WalletRegistration --------------------------
(***************************************************************************)
(* The wallet of a customer and the cards that wait for it                 *)
(*   server/src/services/walletVerification.ts, walletRegistrationLink.ts, *)
(*   orderFulfillment.ts (createNftIssuesForOrder),                        *)
(*   server/src/routes/walletRegistration.ts, mypage.ts,                   *)
(*   admin/walletMissing.ts and the pages that call them                   *)
(*                                                                         *)
(* One customer.  A page asks for a challenge for an address, has the      *)
(* wallet sign it and sends the signature: from the customer's own page,   *)
(* or from the page of a link an administrator has issued.  Registration   *)
(* is a transaction (READ COMMITTED) that reads the latest challenge and   *)
(* then writes; the link is consumed after it.  Meanwhile payments create  *)
(* the cards, of which those of collectible products never wait.           *)
(***************************************************************************)
EXTENDS Integers, Sequences

CONSTANTS
    Pages,          \* pages on which the wallet is connected
    Addresses,      \* wallets of the customer
    Cards,          \* nft_issues rows, one per paid order
    Collectible,    \* cards of products with a digital_collectible rule
    MaxLinks,       \* bound on the links issued
    MaxChallenges,  \* bound on the challenges
    NULL

VARIABLES
    wallet,         \* wallets: the address, or NULL
    challenges,     \* wallet_verification_nonces, in order of creation
    links,          \* wallet_registration_links, in order of creation; uses is history
    page,           \* per page: its step, link, address and what it was handed
    card,           \* nft_issues
    fulfil,         \* per card: the transaction that creates it; late is history
    shown           \* what the administrator's page shows of the latest link

vars == <<wallet, challenges, links, page, card, fulfil, shown>>

NoPage == [pc |-> "closed", link |-> 0, addr |-> NULL, sees |-> 0]
Goto(p, pc) == page' = [page EXCEPT ![p].pc = pc]
LinkStatus == IF links = <<>> THEN "none" ELSE links[Len(links)].status

-----------------------------------------------------------------------------
(* The administrator's page of customers without a wallet.                 *)

Load ==
    /\ shown' = LinkStatus
    /\ shown' # shown
    /\ UNCHANGED <<wallet, challenges, links, page, card, fulfil>>

Revoked(l) == IF l.status = "active" THEN [l EXCEPT !.status = "revoked"] ELSE l

(* The page offers the buttons unless it shows a used link.                *)
Offered == shown # "used"

IssueLink ==
    /\ Offered
    /\ Len(links) < MaxLinks
    /\ links' = Append([i \in DOMAIN links |-> Revoked(links[i])], [status |-> "active", uses |-> 0])
    /\ shown' = "active"
    /\ UNCHANGED <<wallet, challenges, page, card, fulfil>>

RevokeLink ==
    /\ shown = "active"
    /\ links' = [i \in DOMAIN links |-> Revoked(links[i])]
    /\ shown' = LinkStatus'
    /\ UNCHANGED <<wallet, challenges, page, card, fulfil>>

(* Seven days pass.                                                        *)
ExpireLink(i) ==
    /\ links[i].status = "active"
    /\ links' = [links EXCEPT ![i].status = "expired"]
    /\ UNCHANGED <<wallet, challenges, page, card, fulfil, shown>>

-----------------------------------------------------------------------------
(* The page of the customer.                                               *)

(* link = 0 is the page of a signed-in customer.  The page of a link that  *)
(* is not active offers nothing.                                           *)
Open(p, link, addr) ==
    /\ page[p].pc = "closed"
    /\ link # 0 => links[link].status = "active"
    /\ page' = [page EXCEPT ![p] = [pc |-> "connected", link |-> link, addr |-> addr, sees |-> 0]]
    /\ UNCHANGED <<wallet, challenges, links, card, fulfil, shown>>

SignedIn(p) == page[p].link = 0
Admitted(p) == ~SignedIn(p) => links[page[p].link].status = "active"

(* POST .../nonce.                                                         *)
Challenge(p) ==
    /\ page[p].pc = "connected"
    /\ Len(challenges) < MaxChallenges
    /\ \/ /\ Admitted(p)
          /\ challenges' = Append(challenges, [addr |-> page[p].addr, status |-> "open"])
          /\ page' = [page EXCEPT ![p].pc = "signed", ![p].sees = Len(challenges')]
       \/ ~Admitted(p) /\ Goto(p, "closed") /\ UNCHANGED challenges
    /\ UNCHANGED <<wallet, links, card, fulfil, shown>>

(* Ten minutes pass.                                                       *)
ExpireChallenge(i) ==
    /\ challenges[i].status = "open"
    /\ challenges' = [challenges EXCEPT ![i].status = "expired"]
    /\ UNCHANGED <<wallet, links, page, card, fulfil, shown>>

(* The signature never reaches the server.                                 *)
Abandon(p) ==
    /\ page[p].pc \in {"connected", "signed"}
    /\ page' = [page EXCEPT ![p] = NoPage]
    /\ UNCHANGED <<wallet, challenges, links, card, fulfil, shown>>

(* POST .../confirm validates the link.                                    *)
Confirm(p) ==
    /\ page[p].pc = "signed"
    /\ IF Admitted(p) THEN Goto(p, "verify") ELSE Goto(p, "closed")
    /\ UNCHANGED <<wallet, challenges, links, card, fulfil, shown>>

LatestOf(addr) ==
    LET mine == {i \in DOMAIN challenges : challenges[i].addr = addr}
    IN CHOOSE i \in mine : \A j \in mine : j <= i

(* verifyAndRegisterWallet reads the latest challenge for the address; the *)
(* signature must be of that one.                                          *)
Verify(p) ==
    /\ page[p].pc = "verify"
    /\ LET i == LatestOf(page[p].addr) IN
        IF i = page[p].sees /\ challenges[i].status = "open" THEN Goto(p, "register") ELSE Goto(p, "closed")
    /\ UNCHANGED <<wallet, challenges, links, card, fulfil, shown>>

WaitsForSome(c) == card[c].status = "wallet_required" /\ c \in Collectible
WaitsFor(c) == card[c].status = "wallet_required" /\ c \notin Collectible

Ready(addr) == [status |-> "ready_to_issue", addr |-> addr]

(* ... and commits: the challenge, the wallet and the waiting cards.       *)
Register(p) ==
    /\ page[p].pc = "register"
    /\ challenges' = [challenges EXCEPT ![page[p].sees].status = "used"]
    /\ wallet' = page[p].addr
    /\ card' = [c \in Cards |-> IF WaitsFor(c) THEN Ready(page[p].addr) ELSE card[c]]
    /\ IF SignedIn(p)
       THEN UNCHANGED links /\ Goto(p, "closed")
       ELSE links' = [links EXCEPT ![page[p].link].uses = @ + 1] /\ Goto(p, "consume")
    /\ UNCHANGED <<fulfil, shown>>

(* consumeWalletRegistrationLink, a statement after the transaction.       *)
Consume(p) ==
    /\ page[p].pc = "consume"
    /\ links' = [links EXCEPT ![page[p].link].status = "used"]
    /\ Goto(p, "closed")
    /\ UNCHANGED <<wallet, challenges, card, fulfil, shown>>

(* The invocation ends between the two.                                    *)
Crash(p) ==
    /\ page[p].pc \in {"verify", "register", "consume"}
    /\ page' = [page EXCEPT ![p] = NoPage]
    /\ UNCHANGED <<wallet, challenges, links, card, fulfil, shown>>

-----------------------------------------------------------------------------
(* A payment creates a card: createNftIssuesForOrder.                      *)

ReadWallet(c) ==
    /\ fulfil[c].pc = "unpaid"
    /\ fulfil' = [fulfil EXCEPT ![c] = [@ EXCEPT !.pc = "paid", !.saw = wallet]]
    /\ UNCHANGED <<wallet, challenges, links, page, card, shown>>

(* createMany, and the commit.                                             *)
CreateCard(c) ==
    /\ fulfil[c].pc = "paid"
    /\ card' = [card EXCEPT ![c] =
            IF fulfil[c].saw # NULL /\ c \notin Collectible THEN Ready(fulfil[c].saw)
            ELSE [status |-> "wallet_required", addr |-> NULL]]
    /\ fulfil' = [fulfil EXCEPT ![c].pc = "done", ![c].late = fulfil[c].saw = NULL /\ wallet # NULL]
    /\ UNCHANGED <<wallet, challenges, links, page, shown>>

-----------------------------------------------------------------------------

Init ==
    /\ wallet = NULL
    /\ challenges = <<>>
    /\ links = <<>>
    /\ page = [p \in Pages |-> NoPage]
    /\ card = [c \in Cards |-> [status |-> "none", addr |-> NULL]]
    /\ fulfil = [c \in Cards |-> [pc |-> "unpaid", saw |-> NULL, late |-> FALSE]]
    /\ shown = "none"

PageStep(p) == Challenge(p) \/ Abandon(p) \/ Confirm(p) \/ Verify(p) \/ Register(p) \/ Consume(p) \/ Crash(p)

Next ==
    \/ Load \/ IssueLink \/ RevokeLink
    \/ \E i \in DOMAIN links : ExpireLink(i)
    \/ \E i \in DOMAIN challenges : ExpireChallenge(i)
    \/ \E p \in Pages :
        \/ PageStep(p)
        \/ \E link \in {0} \union DOMAIN links, addr \in Addresses : Open(p, link, addr)
    \/ \E c \in Cards : ReadWallet(c) \/ CreateCard(c)

Spec == Init /\ [][Next]_vars

-----------------------------------------------------------------------------
(* Safety.                                                                 *)

(* A card that could be issued waits beside a registered wallet only if    *)
(* its payment had looked for the wallet before the registration committed *)
(* and created the card after it.                                          *)
WaitingIsExplained ==
    \A c \in Cards \ Collectible :
        card[c].status = "wallet_required" /\ wallet # NULL => fulfil[c].late

(* A link registers a wallet once; the comment of                          *)
(* validateWalletRegistrationLink promises that an old link cannot replace *)
(* the wallet later.  Two requests that both found the link unused break   *)
(* it (README, section 6).                                                 *)
LinkRegistersOnce == \A i \in DOMAIN links : links[i].uses <= 1
=============================================================================
