----------------------- MODULE TranslationProperties -----------------------
(***************************************************************************)
(* What the translators must not do to a payment: mix up its two parties,  *)
(* lose the account that is paid, its bank, or part of the amount, or      *)
(* write what their own readers refuse.                                    *)
(***************************************************************************)
EXTENDS TranslationFlow

----------------------------------------------------------------------------
(* A message seen by the rail that gets it *)

IdsOf(accounts) == {acct.id : acct \in accounts \ {None}}

\* The account the money goes to
Credited(rail, m) ==
    CASE rail \in {"PIX", "SPEI"} -> m.key
      [] rail = "SWIFT_MT103" -> m.beneficiary.iban ?? m.beneficiary.account
      [] rail = "ISO20022_MX" -> m.CdtrAcct.IBAN ?? m.CdtrAcct.Othr
      [] rail = "ACH_NACHA" -> At(m.routingTransit, m.account)
      [] rail = "FEDNOW" -> At(m.CdtrAgt, m.CdtrAcct)
      [] rail = "BRE_B" -> m.llave

CreditorIds(rail, m) ==
    CASE rail \in {"PIX", "SPEI"} -> {m.creditor.name} \cup IdsOf({m.key, m.creditor.account})
      [] rail = "SWIFT_MT103" -> {m.beneficiary.name}
                                     \cup IdsOf({m.beneficiary.iban, m.beneficiary.account})
      [] rail = "ISO20022_MX" -> {m.Cdtr} \cup IdsOf({m.CdtrAcct.IBAN, m.CdtrAcct.Othr})
      [] rail = "ACH_NACHA" -> {m.individualName} \cup IdsOf({m.account})
      [] rail = "FEDNOW" -> {m.Cdtr} \cup IdsOf({m.CdtrAcct})
      [] rail = "BRE_B" -> {m.beneficiario.nombre, m.beneficiario.nit, m.beneficiario.cc}
                               \cup IdsOf({m.llave, m.beneficiario.numeroCuenta})

DebtorIds(rail, m) ==
    CASE rail \in {"PIX", "SPEI"} -> {m.debtor.name} \cup IdsOf({m.debtor.account})
      [] rail = "SWIFT_MT103" -> {m.ordering.name} \cup IdsOf({m.ordering.account})
      [] rail = "ISO20022_MX" -> {m.Dbtr} \cup IdsOf({m.DbtrAcct.IBAN, m.DbtrAcct.Othr})
      [] rail = "ACH_NACHA" -> {m.companyName, m.companyId, m.originator.name,
                                m.originator.taxId} \cup IdsOf({m.originator.account})
      [] rail = "FEDNOW" -> {m.Dbtr} \cup IdsOf({m.DbtrAcct})
      [] rail = "BRE_B" -> {m.pagador.nombre, m.pagador.nit, m.pagador.cc}
                               \cup IdsOf({m.pagador.numeroCuenta})

AmountOf(rail, m) ==
    CASE rail \in {"PIX", "SPEI"} -> m.value
      [] rail = "SWIFT_MT103" -> m.amount
      [] rail \in {"ISO20022_MX", "FEDNOW"} -> m.IntrBkSttlmAmt
      [] rail = "ACH_NACHA" -> m.amount
      [] rail = "BRE_B" -> m.valor

Origin == path[1]

\* The message it came as, whatever its form, says whom to pay.
NamesPayee ==
    IF IsRequest(first) THEN TRUE
    ELSE CASE Origin = "PIX" -> first.chave # None
           [] Origin = "SWIFT_MT103" -> CreditorIds(Origin, first) # {None}
           [] OTHER -> Credited(Origin, first) # None

FirstAmount ==
    IF IsRequest(first) THEN first.amount
    ELSE IF Origin = "PIX" THEN first.valor ELSE AmountOf(Origin, first)

\* Normalizer has set fx, or an MX message brought it along.
MayBeConverted ==
    IF IsRequest(first) THEN first.currency # "USD"
    ELSE Origin = "ISO20022_MX" /\ first.Ccy # "USD"

Passed(rail) == \E k \in 2 .. Len(path) : path[k] = rail

TimesOn(rail) == Cardinality({k \in 1 .. Len(path) : path[k] = rail})

----------------------------------------------------------------------------

\* Nothing that identifies the payer stands among the fields of the payee, or
\* the other way round, on however many rails the payment has been: each writer
\* takes both parties through the same helpers (parseAbaAlias,
\* extractRtnAndAccount, buildAccount), and a single alias that belongs to the
\* payee only.
PartiesStayApart ==
    stage = "emitted" =>
        /\ CreditorIds(Current, message) \cap Payers = {}
        /\ DebtorIds(Current, message) \cap Payees = {}

\* If the message a payment came as says whom to pay, every message made of it
\* credits an account of his: no default ("UNKNOWN", the placeholder of PIX) takes
\* its place, whichever of the optional fields are there.  How much of its number
\* there is room for, AccountIsWhole says.
PayeeIsCredited ==
    stage = "emitted" /\ NamesPayee => Credited(Current, message).id \in Payees

\* And his whole account number, unless a rail had no room for it: ACH keeps 17
\* characters, FedNow 34, of which a prefix takes up to 6 and each stay on Bre-B
\* 9 for the code that brebToCanonical puts in front.
AccountIsWhole ==
    stage = "emitted" =>
        LET credited == Credited(Current, message)
        IN  credited.left < Length[credited.id] =>
                \/ Origin = "ACH_NACHA" \/ Passed("ACH_NACHA")
                \/ Passed("FEDNOW") /\ Length[credited.id] + 6 + 9 * TimesOn("BRE_B") > 34

PayeeIsNamed == PayeeIsCredited /\ AccountIsWhole

\* Along a chain of rails an amount is rounded, never cut off, and rounding it
\* again changes nothing: it stays within half a cent of what was handed in.
\* FedNow is left out for money that may carry a conversion, because
\* canonicalToFednow writes the converted amount.
AmountIsKept ==
    stage = "emitted" /\ ~(Passed("FEDNOW") /\ MayBeConverted) =>
        /\ AmountOf(Current, message) <= FirstAmount + 5
        /\ FirstAmount <= AmountOf(Current, message) + 5

\* A translator's own reader takes what its writer wrote: a message handed in
\* again is refused only for an amount that was rounded to nothing.
OwnMessagesAreRead ==
    stage = "rejected" /\ Len(path) > 1 => canonical.value = 0

\* On the rails of the United States and on MX the bank goes with the account
\* ("<routing number>/<account>"): a payment that came by ACH or FedNow and has
\* been on no other rail is still credited at the bank and to the account it came
\* for.
BankIsKept ==
    /\ stage = "emitted"
    /\ Origin \in {"ACH_NACHA", "FEDNOW"}
    /\ \A k \in 1 .. Len(path) : path[k] \in {"ACH_NACHA", "FEDNOW", "ISO20022_MX"}
    => LET now == Credited(Current, message)
           then == Credited(Origin, first)
       IN  now.banks = then.banks /\ now.id = then.id
=============================================================================
