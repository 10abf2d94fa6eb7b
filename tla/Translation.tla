---------------------------- MODULE Translation ----------------------------
(***************************************************************************)
(* The translators of src/translation/: from the messages of seven rails   *)
(* to the canonical pacs.008 and back.  They are pure functions of a       *)
(* message; the mapping table of the database is a parameter.              *)
(*                                                                         *)
(* Kept are the fields that say how much is paid, by whom and to whom.     *)
(* Identifiers of the message, dates, addresses, purposes and remittance   *)
(* texts are left out.  An amount is counted in tenths of a cent, so that  *)
(* rounding to cents can be seen.                                          *)
(*                                                                         *)
(* An account is a string like "021000021/PIX-abc".  The code only ever    *)
(* takes it apart at slashes and known prefixes, compares it with patterns *)
(* and cuts it off, so an account is kept in parts.                        *)
(***************************************************************************)
EXTENDS Integers, Sequences, FiniteSets

CONSTANTS
    None,       \* undefined
    Length,     \* Length[i]: how many characters the identifier i has
    Ibans,      \* identifiers that look like an IBAN
    Companies,  \* tax identifiers with a hyphen (NIT)
    Rate        \* Rate[c]: units of currency c for a US dollar

Rails == {"PIX", "SPEI", "SWIFT_MT103", "ISO20022_MX", "ACH_NACHA", "FEDNOW", "BRE_B"}

Currencies == {"BRL", "MXN", "COP", "USD", "EUR"}

ASSUME TranslationAssumption ==
    /\ \A i \in DOMAIN Length : Length[i] \in Nat
    /\ Ibans \subseteq DOMAIN Length
    /\ Rate \in [Currencies -> Nat \ {0}]

----------------------------------------------------------------------------
(* Helpers *)

\* a ?? b
a ?? b == IF a # None THEN a ELSE b

\* Wrong variant: what is less than a cent is cut off.
Truncated(v) == (v \div 10) * 10

\* Math.round(x * 100) / 100 and toFixed(2), for amounts that are no tie
Cents(v) == ((v + 5) \div 10) * 10

\* The code of a bank: 9 digits (ABA) or 8 (ISPB, BanRep).  An ABA number may
\* have lost its check digit.
Aba(code) == [digits |-> 9, code |-> code, check |-> TRUE]
Entity(code) == [digits |-> 8, code |-> code, check |-> TRUE]

DefaultAba == Aba("021000021")
NoAba == Aba("000000000")
SimulatedEntity == Entity("26264220")

\* substring(0, 8), then padEnd(9, '0')
Padded(bank) == [bank EXCEPT !.check = FALSE]

\* <bank>/<bank>/.../<prefix><id>, and how many characters of id are left
Account(prefix, id) == [banks |-> <<>>, prefix |-> prefix, id |-> id, left |-> Length[id]]

At(bank, acct) == [acct EXCEPT !.banks = <<bank>> \o @]

\* What split('/').slice(1).join('/') leaves
Behind(acct) == [acct EXCEPT !.banks = Tail(@)]

HasBank(acct) == acct.banks # <<>>

HasAba(acct) == HasBank(acct) /\ Head(acct.banks).digits = 9

\* acct.replace(/^(P1|P2|...)/, '')
Strip(acct, prefixes) ==
    IF ~HasBank(acct) /\ acct.prefix \in prefixes THEN [acct EXCEPT !.prefix = ""] ELSE acct

\* /^[A-Z]{2}\d{2}[A-Z0-9]{11,30}$/
IsIban(acct) == ~HasBank(acct) /\ acct.prefix = "" /\ acct.id \in Ibans /\ acct.left >= 15

Prefixes == {"", "PIX-", "SPEI-", "BREB-", "CLABE-", "SWIFT-"}

PrefixLength == [p \in Prefixes |->
    IF p = "" THEN 0 ELSE IF p = "PIX-" THEN 4 ELSE IF p \in {"SPEI-", "BREB-"} THEN 5 ELSE 6]

\* substring(0, n).  A bank takes 9 characters with its slash, one more if it is
\* an ABA number.  Where the banks alone fill n, nothing is left of the identifier
\* and room is zero or less.
CutAt(acct, n) ==
    LET aba == {k \in 1 .. Len(acct.banks) : acct.banks[k].digits = 9}
        room == n - PrefixLength[acct.prefix] - 9 * Len(acct.banks) - Cardinality(aba)
    IN  [acct EXCEPT !.left = IF @ > room THEN room ELSE @]

\* The banks of the model: those the code knows and, for its messages, three more.
Codes == {"021000021", "000000000", "26264220", "091000019", "111000025", "00000007"}
Banks == [digits : {8, 9}, code : Codes, check : BOOLEAN]

Accounts == [banks : Seq(Banks), prefix : Prefixes, id : DOMAIN Length, left : Int]

ASSUME UndefinedAssumption == None \notin DOMAIN Length \cup Currencies /\ None \notin Accounts

NoFx == [rate |-> None, local |-> None]
NoAgent == [bic |-> None, routing |-> None, ispb |-> None]
Party(name, acct, tax) == [name |-> name, account |-> acct, taxId |-> tax]
Unknown == Account("", "UNKNOWN")

\* canonicalPacs008Schema, as far as it concerns these fields
Valid(c) ==
    /\ c.value > 0
    /\ c.instd # None => c.instd > 0
    /\ c.fx.local # None => c.fx.local > 0

----------------------------------------------------------------------------
(* POST /payments and its form of a payment: PIX, SPEI and BRE_B *)

\* The rows of mapping_table that reach the alias: none, or one transformation
\* of creditor.alias.
Mappings == {"none", "identity", "strip_pix_prefix", "strip_clabe_prefix"}

applyTransformation(acct, transformation) ==
    CASE transformation = "strip_pix_prefix" -> Strip(acct, {"PIX-"})
      [] transformation = "strip_clabe_prefix" -> Strip(acct, {"CLABE-"})
      [] OTHER -> acct

pixRequestToCanonical(req, mapping) ==
    [rail |-> "PIX", value |-> req.amount, ccy |-> req.currency ?? "BRL",
     instd |-> None, fx |-> NoFx, origin |-> NoAgent, destination |-> NoAgent,
     debtor |-> Party(req.debtor.name, req.debtor.alias, None),
     creditor |-> Party(req.creditor.name, req.creditor.alias, None),
     alias |-> [type |-> "PIX_KEY",
                value |-> IF mapping = "none" THEN Strip(req.creditor.alias, {"PIX-"})
                          ELSE applyTransformation(req.creditor.alias, mapping)]]

speiToCanonical(req, mapping) ==
    [rail |-> "SPEI", value |-> req.amount, ccy |-> req.currency ?? "MXN",
     instd |-> None, fx |-> NoFx, origin |-> NoAgent, destination |-> NoAgent,
     debtor |-> Party(req.debtor.name, req.debtor.alias, None),
     creditor |-> Party(req.creditor.name, req.creditor.alias, None),
     alias |-> [type |-> "CLABE",
                value |-> IF mapping = "none" THEN Strip(req.creditor.alias, {"CLABE-"})
                          ELSE applyTransformation(req.creditor.alias, mapping)]]

brebRequestToCanonical(req) ==
    [rail |-> "BRE_B", value |-> req.amount, ccy |-> req.currency ?? "COP",
     instd |-> None, fx |-> NoFx, destination |-> NoAgent,
     origin |-> [NoAgent EXCEPT !.ispb = SimulatedEntity],
     debtor |-> Party(req.debtor.name ?? "Unknown", req.debtor.alias, None),
     creditor |-> Party(req.creditor.name ?? "Unknown", req.creditor.alias, None),
     alias |-> [type |-> "LLAVE_BREB", value |-> Strip(req.creditor.alias, {"BREB-"})]]

----------------------------------------------------------------------------
(* PIX and SPEI: what the adapters get.  Nothing reads it back. *)

canonicalToPix(c) ==
    [key |-> c.alias.value, value |-> c.value, ccy |-> c.ccy,
     debtor |-> Party(c.debtor.name, c.debtor.account, None),
     creditor |-> Party(c.creditor.name, c.creditor.account, None)]

canonicalToSpei(c) == canonicalToPix(c)

\* The message of the PIX system itself
pixToCanonical(m) ==
    [rail |-> "PIX", value |-> m.valor ?? 0, ccy |-> "BRL", instd |-> None, fx |-> NoFx,
     origin |-> [NoAgent EXCEPT !.ispb = m.pagador.ispb],
     destination |-> [NoAgent EXCEPT !.ispb = m.recebedor.ispb],
     debtor |-> Party(m.pagador.nome, m.pagador.numero ?? Account("", "acc-PMT"), m.pagador.cpf),
     creditor |-> Party(m.recebedor.nome, Account("PIX-", m.chave ?? "recv-PMT"), m.recebedor.cpf),
     alias |-> [type |-> "PIX_KEY",
                value |-> Account("", m.chave ?? "")]]

----------------------------------------------------------------------------
(* SWIFT MT103 *)

\* Wrong variant: a beneficiary with only a name has no account.
namelessAccount(b) == b.iban ?? (b.account ?? Unknown)

creditorAccount(b) ==
    b.iban ?? (b.account ?? (IF b.name = None THEN Unknown ELSE Account("", b.name)))

swiftMt103ToCanonical(m) ==
    LET payee == creditorAccount(m.beneficiary)
    IN  [rail |-> "SWIFT_MT103", value |-> m.amount, ccy |-> m.currency,
         instd |-> None, fx |-> NoFx,
         origin |-> [NoAgent EXCEPT !.bic = m.orderingInstitution ?? m.ordering.bic],
         destination |-> [NoAgent EXCEPT !.bic = m.accountWithInstitution],
         debtor |-> Party(m.ordering.name,
                          m.ordering.account ?? (IF m.ordering.name = None THEN Unknown
                                                 ELSE Account("", m.ordering.name)), None),
         creditor |-> Party(m.beneficiary.name, payee, None),
         alias |-> [type |-> IF m.beneficiary.iban # None THEN "IBAN" ELSE "ACCOUNT",
                    value |-> payee]]

canonicalToSwiftMt103(c) ==
    LET own == {"PIX-", "SPEI-", "SWIFT-"}
        iban == IsIban(c.creditor.account)
    IN  [amount |-> c.value, currency |-> c.ccy,
         ordering |-> [account |-> Strip(c.debtor.account, own), name |-> c.debtor.name,
                       bic |-> c.origin.bic],
         orderingInstitution |-> c.origin.bic,
         accountWithInstitution |-> c.destination.bic,
         beneficiary |-> [account |-> IF iban THEN None ELSE Strip(c.creditor.account, own),
                          iban |-> IF iban THEN c.creditor.account ELSE None,
                          name |-> c.creditor.name]]

----------------------------------------------------------------------------
(* ISO 20022 MX *)

iso20022MxToCanonical(m) ==
    LET payee == m.CdtrAcct.IBAN ?? (m.CdtrAcct.Othr ?? Unknown)
        party(p, acct) == Party(p, acct.IBAN ?? (acct.Othr ?? Unknown), None)
    IN  [rail |-> "ISO20022_MX", value |-> m.IntrBkSttlmAmt, ccy |-> m.Ccy,
         instd |-> m.InstdAmt,
         fx |-> IF m.XchgRate = None THEN NoFx ELSE [rate |-> m.XchgRate, local |-> m.InstdAmt],
         origin |-> [bic |-> m.DbtrAgt.BICFI, routing |-> m.DbtrAgt.MmbId, ispb |-> None],
         destination |-> [bic |-> m.CdtrAgt.BICFI, routing |-> m.CdtrAgt.MmbId, ispb |-> None],
         debtor |-> party(m.Dbtr, m.DbtrAcct),
         creditor |-> party(m.Cdtr, m.CdtrAcct),
         alias |-> [type |-> IF m.CdtrAcct.IBAN # None THEN "IBAN" ELSE "ACCOUNT",
                    value |-> payee]]

buildAccount(acct, aliasType, aliasValue) ==
    LET clean == Strip(acct, {"PIX-", "SPEI-", "SWIFT-"})
        asIban == aliasType = "IBAN" \/ IsIban(clean)
        account == aliasValue ?? clean
    IN  [IBAN |-> IF asIban THEN account ELSE None, Othr |-> IF asIban THEN None ELSE account]

\* Wrong variant: the alias, which is the payee's, is passed for both parties.
aliasedDbtrAcct(c) == buildAccount(c.debtor.account, c.alias.type, c.alias.value)

dbtrAcct(c) == buildAccount(c.debtor.account,
                            IF c.alias.type = "IBAN" THEN None ELSE c.alias.type, None)

cdtrAcct(c) == buildAccount(c.creditor.account, c.alias.type, c.alias.value)

\* Wrong variant: an amount that was not instructed is written as zero.
zeroInstdAmt(c) == IF c.instd = None THEN 0 ELSE Cents(c.instd)

InstdAmt(c) == IF c.instd = None THEN None ELSE Cents(c.instd)

canonicalToIso20022Mx(c) ==
    [IntrBkSttlmAmt |-> Cents(c.value), Ccy |-> c.ccy,
     InstdAmt |-> InstdAmt(c),
     XchgRate |-> c.fx.rate,
     DbtrAgt |-> [BICFI |-> c.origin.bic, MmbId |-> c.origin.routing],
     CdtrAgt |-> [BICFI |-> c.destination.bic, MmbId |-> c.destination.routing],
     Dbtr |-> c.debtor.name,
     DbtrAcct |-> dbtrAcct(c),
     Cdtr |-> c.creditor.name,
     CdtrAcct |-> cdtrAcct(c)]

----------------------------------------------------------------------------
(* ACH NACHA: amounts are cents, the currency is the dollar *)

achNachaToCanonical(m) ==
    [rail |-> "ACH_NACHA", value |-> m.amount, ccy |-> "USD", instd |-> None, fx |-> NoFx,
     origin |-> [NoAgent EXCEPT !.routing = Padded(m.originatingDfi)],
     destination |-> [NoAgent EXCEPT !.routing = m.routingTransit],
     debtor |-> Party(m.originator.name ?? m.companyName,
                      m.originator.account ?? Account("", m.companyId), m.originator.taxId),
     creditor |-> Party(m.individualName, m.account, None),
     alias |-> [type |-> "ABA_ROUTING", value |-> At(m.routingTransit, m.account)]]

\* Wrong variant: the routing number in front of the account is not looked for.
plainAlias(alias, fallback) ==
    [bank |-> DefaultAba, account |-> Strip(fallback, {"PIX-", "SPEI-"})]

parseAbaAlias(alias, fallback) ==
    IF HasAba(alias)
    THEN [bank |-> Head(alias.banks), account |-> Strip(Behind(alias), {"PIX-", "SPEI-"})]
    ELSE [bank |-> DefaultAba, account |-> Strip(fallback, {"PIX-", "SPEI-"})]

canonicalToAchNacha(c) ==
    LET payee == parseAbaAlias(c.alias.value, c.creditor.account)
        payer == parseAbaAlias(At(c.origin.routing ?? NoAba,
                                  Strip(c.debtor.account, {"PIX-", "SPEI-"})), c.debtor.account)
    IN  [amount |-> Cents(c.value),
         originatingDfi |-> c.origin.routing ?? payer.bank,
         routingTransit |-> payee.bank,
         account |-> CutAt(payee.account, 17),
         individualName |-> c.creditor.name ?? "BENEFICIARY",
         companyName |-> c.debtor.name ?? "MIPIT",
         companyId |-> c.debtor.taxId ?? "1234567890",
         originator |-> [name |-> c.debtor.name ?? "MIPIT", account |-> payer.account,
                         taxId |-> c.debtor.taxId]]

----------------------------------------------------------------------------
(* FedNow: the currency is the dollar *)

fednowToCanonical(m) ==
    LET payee == At(m.CdtrAgt, m.CdtrAcct)
    IN  [rail |-> "FEDNOW", value |-> m.IntrBkSttlmAmt, ccy |-> "USD",
         instd |-> None, fx |-> NoFx,
         origin |-> [NoAgent EXCEPT !.routing = m.DbtrAgt],
         destination |-> [NoAgent EXCEPT !.routing = m.CdtrAgt],
         debtor |-> Party(m.Dbtr, At(m.DbtrAgt, m.DbtrAcct), None),
         creditor |-> Party(m.Cdtr, payee, None),
         alias |-> [type |-> "ABA_ROUTING", value |-> payee]]

extractRtnAndAccount(alias, bank, fallback) ==
    IF HasAba(alias)
    THEN [bank |-> Head(alias.banks), account |-> Strip(Behind(alias), {"PIX-", "SPEI-"})]
    ELSE [bank |-> bank, account |-> Strip(fallback, {"PIX-", "SPEI-"})]

\* A rate is a quotient of two numbers.
amountUsd(c) ==
    IF c.ccy = "USD" THEN c.value
    ELSE IF c.fx.local # None THEN c.fx.local
    ELSE IF c.fx.rate # None THEN (c.value * c.fx.rate[1]) \div c.fx.rate[2]
    ELSE c.value

canonicalToFednow(c) ==
    LET payee == extractRtnAndAccount(c.alias.value, c.destination.routing ?? DefaultAba,
                                      c.creditor.account)
        payer == extractRtnAndAccount(c.debtor.account, c.origin.routing ?? DefaultAba,
                                      c.debtor.account)
    IN  [IntrBkSttlmAmt |-> Cents(amountUsd(c)),
         DbtrAgt |-> payer.bank, Dbtr |-> c.debtor.name, DbtrAcct |-> CutAt(payer.account, 34),
         CdtrAgt |-> payee.bank, Cdtr |-> c.creditor.name, CdtrAcct |-> CutAt(payee.account, 34)]

----------------------------------------------------------------------------
(* Bre-B: the currency is the Colombian peso *)

brebToCanonical(m) ==
    LET id(p) == IF p.nit # None THEN Account("", p.nit)
                 ELSE IF p.cc # None THEN Account("", p.cc) ELSE p.numeroCuenta
    IN  [rail |-> "BRE_B", value |-> m.valor, ccy |-> "COP", instd |-> None, fx |-> NoFx,
         origin |-> [NoAgent EXCEPT !.ispb = m.pagador.codigoEntidad],
         destination |-> [NoAgent EXCEPT !.ispb = m.beneficiario.codigoEntidad],
         debtor |-> Party(m.pagador.nombre, At(m.pagador.codigoEntidad, id(m.pagador) ?? Unknown),
                          m.pagador.nit ?? m.pagador.cc),
         creditor |-> Party(m.beneficiario.nombre,
                            At(m.beneficiario.codigoEntidad, id(m.beneficiario) ?? m.llave),
                            m.beneficiario.nit ?? m.beneficiario.cc),
         alias |-> [type |-> "LLAVE_BREB", value |-> m.llave]]

canonicalToBreb(c) ==
    LET bare(acct) == IF HasBank(acct) THEN Behind(acct) ELSE acct
        side(p, bank, name) ==
            [codigoEntidad |-> bank ?? SimulatedEntity, nombre |-> p.name ?? name,
             nit |-> IF p.taxId \in Companies THEN p.taxId ELSE None,
             cc |-> IF p.taxId \in Companies THEN None ELSE p.taxId,
             numeroCuenta |-> bare(p.account)]
    IN  [valor |-> Cents(c.value),
         pagador |-> side(c.debtor, c.origin.ispb, "REMITENTE"),
         beneficiario |-> side(c.creditor, c.destination.ispb, "BENEFICIARIO"),
         llave |-> Strip(IF c.alias.type = "LLAVE_BREB" THEN c.alias.value
                         ELSE bare(c.creditor.account), {"BREB-"})]
=============================================================================
