-------------------------- MODULE TranslationProofs --------------------------
(***************************************************************************)
(* Proofs about the translators, for every two parties and lengths of      *)
(* their identifiers, every rate and amount, and any number of rails a     *)
(* payment crosses.  Readers and writers are functions between sets of     *)
(* messages in which no identifier of one party stands among the fields of *)
(* the other; on these types rest the invariants of the way of a payment:  *)
(* what it came as (PathInv), its amount (MoneyInv), whom it is for        *)
(* (PayeeInv), at which bank (BankInv) and how much of the account is left *)
(* (FitsInv).                                                              *)
(***************************************************************************)
EXTENDS TranslationProperties, FiniteSetTheorems, TLAPS

Opt(T) == T \cup {None}
Names(S) == Opt(DOMAIN Length) \ S
AccountsBut(S) ==
    [banks : Seq(Banks), prefix : Prefixes, id : DOMAIN Length \ S, left : Int]
Parties(S) == [name : Names(S), account : AccountsBut(S), taxId : Names(S)]

(* Helpers on accounts keep them accounts, of the same party.              *)
LEMMA AccountsAreTyped ==
  ASSUME NEW S
  PROVE  /\ AccountsBut(S) \subseteq Accounts
         /\ None \notin AccountsBut(S)
BY UndefinedAssumption DEF AccountsBut, Accounts

LEMMA NewAccount ==
  ASSUME NEW S, NEW prefix \in Prefixes, NEW id \in DOMAIN Length \ S
  PROVE  Account(prefix, id) \in AccountsBut(S)
<1>1. Length[id] \in Int /\ <<>> \in Seq(Banks)
  BY TranslationAssumption
<1> QED
  BY <1>1 DEF Account, AccountsBut

LEMMA BankPutInFront ==
  ASSUME NEW S, NEW a \in AccountsBut(S), NEW bank \in Banks
  PROVE  /\ At(bank, a) \in AccountsBut(S)
         /\ HasBank(At(bank, a)) /\ At(bank, a).banks = <<bank>> \o a.banks
         /\ At(bank, a).id = a.id /\ At(bank, a).left = a.left
         /\ At(bank, a).prefix = a.prefix
<1>1. a.banks \in Seq(Banks) /\ <<bank>> \o a.banks \in Seq(Banks)
      /\ <<bank>> \o a.banks # <<>>
  BY DEF AccountsBut
<1> QED
  BY <1>1 DEF At, AccountsBut, HasBank

LEMMA BankTakenOff ==
  ASSUME NEW S, NEW a \in AccountsBut(S), HasBank(a)
  PROVE  Behind(a) \in AccountsBut(S) /\ Head(a.banks) \in Banks
<1>1. a.banks \in Seq(Banks) /\ a.banks # <<>>
  BY DEF AccountsBut, HasBank
<1>2. Tail(a.banks) \in Seq(Banks) /\ Head(a.banks) \in Banks
  BY <1>1
<1> QED
  BY <1>2 DEF Behind, AccountsBut

LEMMA PrefixTakenOff ==
  ASSUME NEW S, NEW a \in AccountsBut(S), NEW prefixes
  PROVE  Strip(a, prefixes) \in AccountsBut(S)
BY DEF Strip, AccountsBut, Prefixes

LEMMA PartsKept ==
  ASSUME NEW S, NEW a \in AccountsBut(S), NEW prefixes
  PROVE  /\ Strip(a, prefixes).id = a.id /\ Strip(a, prefixes).banks = a.banks
         /\ Behind(a).id = a.id /\ Behind(a).banks = Tail(a.banks)
         /\ \A bank : At(bank, a).id = a.id
BY DEF Strip, Behind, At, AccountsBut

LEMMA PrefixesHaveLength ==
  ASSUME NEW p \in Prefixes PROVE PrefixLength[p] \in 0 .. 6
BY DEF PrefixLength

LEMMA CutKeepsId ==
  ASSUME NEW S, NEW a \in AccountsBut(S), NEW n \in Nat
  PROVE  /\ CutAt(a, n) \in AccountsBut(S)
         /\ CutAt(a, n).banks = a.banks /\ CutAt(a, n).id = a.id
         /\ CutAt(a, n).prefix = a.prefix
<1> DEFINE aba == {k \in 1 .. Len(a.banks) : a.banks[k].digits = 9}
           room == n - PrefixLength[a.prefix] - 9 * Len(a.banks) - Cardinality(aba)
<1>1. a.banks \in Seq(Banks) /\ a.prefix \in Prefixes /\ a.left \in Int
  BY DEF AccountsBut
<1>2. Cardinality(aba) \in Nat
  <2>1. IsFiniteSet(1 .. Len(a.banks))
    BY <1>1, FS_Interval
  <2> QED
    BY <2>1, FS_Subset, FS_CardinalityType
<1>3. PrefixLength[a.prefix] \in Int /\ Len(a.banks) \in Nat
  BY <1>1, PrefixesHaveLength
<1>4. room \in Int
  BY <1>2, <1>3
<1>5. CutAt(a, n) = [a EXCEPT !.left = IF @ > room THEN room ELSE @]
  BY DEF CutAt
<1> HIDE DEF room
<1> QED
  BY <1>1, <1>4, <1>5 DEF AccountsBut

Pair == (Nat \ {0}) \X (Nat \ {0})
AliasTypes == {"PIX_KEY", "CLABE", "LLAVE_BREB", "IBAN", "ACCOUNT", "ABA_ROUTING"}
Bics == {"OCBIC", "OIBIC", "CIBIC"}
Agents == [bic : Opt(Bics), routing : Opt(Banks), ispb : Opt(Banks)]
Fx == [rate : Opt(Pair), local : Opt(Nat)]

Canonicals ==
    [rail : Rails, value : Nat, ccy : Currencies, instd : Opt(Nat), fx : Fx,
     origin : Agents, destination : Agents,
     debtor : Parties(Payees), creditor : Parties(Payers),
     alias : [type : AliasTypes, value : AccountsBut(Payers)]]

RequestType ==
    [amount : Nat \ {0}, currency : Opt(Currencies),
     debtor : [name : Names(Payees), alias : AccountsBut(Payees)],
     creditor : [name : Names(Payers), alias : AccountsBut(Payers)]]

PixType ==
    [valor : Opt(Nat), chave : Names(Payers),
     pagador : [nome : Names(Payees), cpf : Names(Payees), ispb : Opt(Banks),
                numero : Opt(AccountsBut(Payees))],
     recebedor : [nome : Names(Payers), cpf : Names(Payers), ispb : Opt(Banks)]]

AdapterType ==
    [key : AccountsBut(Payers), value : Nat, ccy : Currencies,
     debtor : Parties(Payees), creditor : Parties(Payers)]

SwiftType ==
    [amount : Nat, currency : Currencies,
     ordering : [account : Opt(AccountsBut(Payees)), name : Names(Payees), bic : Opt(Bics)],
     orderingInstitution : Opt(Bics), accountWithInstitution : Opt(Bics),
     beneficiary : [account : Opt(AccountsBut(Payers)), iban : Opt(AccountsBut(Payers)),
                    name : Names(Payers)]]

MxAccount(S) == [IBAN : Opt(AccountsBut(S)), Othr : Opt(AccountsBut(S))]
MxAgent == [BICFI : Opt(Bics), MmbId : Opt(Banks)]

MxType ==
    [IntrBkSttlmAmt : Nat, Ccy : Currencies, InstdAmt : Opt(Nat), XchgRate : Opt(Pair),
     DbtrAgt : MxAgent, CdtrAgt : MxAgent, Dbtr : Names(Payees), DbtrAcct : MxAccount(Payees),
     Cdtr : Names(Payers), CdtrAcct : MxAccount(Payers)]

AchType ==
    [amount : Nat, originatingDfi : Banks, routingTransit : Banks,
     account : AccountsBut(Payers), individualName : Names(Payers),
     companyName : Names(Payees), companyId : DOMAIN Length \ Payees,
     originator : [name : Names(Payees), account : Opt(AccountsBut(Payees)),
                   taxId : Names(Payees)]]

FednowType ==
    [IntrBkSttlmAmt : Nat, DbtrAgt : Banks, CdtrAgt : Banks, Dbtr : Names(Payees),
     Cdtr : Names(Payers), DbtrAcct : AccountsBut(Payees), CdtrAcct : AccountsBut(Payers)]

BrebSide(S) ==
    [codigoEntidad : Banks, nombre : Names(S), nit : Names(S), cc : Names(S),
     numeroCuenta : Opt(AccountsBut(S))]

BrebType ==
    [valor : Nat, pagador : BrebSide(Payees), beneficiario : BrebSide(Payers),
     llave : AccountsBut(Payers)]

LEMMA KnownBanks ==
  /\ DefaultAba \in Banks /\ NoAba \in Banks /\ SimulatedEntity \in Banks
  /\ \A b \in Banks : Padded(b) \in Banks
<1>1. ASSUME NEW d \in {8, 9}, NEW code \in Codes
      PROVE  [digits |-> d, code |-> code, check |-> TRUE] \in Banks
  BY Zenon DEF Banks
<1>2. \A code \in Codes : Aba(code) \in Banks /\ Entity(code) \in Banks
  BY <1>1 DEF Aba, Entity
<1>3. DefaultAba \in Banks /\ NoAba \in Banks /\ SimulatedEntity \in Banks
  BY <1>2 DEF DefaultAba, NoAba, SimulatedEntity, Codes
<1>4. ASSUME NEW b \in Banks PROVE Padded(b) \in Banks
  BY DEF Banks, Padded
<1> QED
  BY <1>3, <1>4

LEMMA NothingConverted == NoFx \in Fx
BY DEF NoFx, Fx, Opt

LEMMA PartyTyped ==
  ASSUME NEW S, NEW name \in Names(S), NEW a \in AccountsBut(S), NEW tax \in Names(S)
  PROVE  Party(name, a, tax) \in Parties(S)
BY DEF Party, Parties

LEMMA PlaceholdersAreNobodys ==
  ASSUME NEW id \in Placeholders, NEW S \in {Payers, Payees}
  PROVE  id \in DOMAIN Length \ S
BY FlowAssumption

LEMMA Nameless ==
  ASSUME NEW S \in {Payers, Payees}
  PROVE  /\ None \in Names(S) /\ Unknown \in AccountsBut(S)
         /\ \A id \in Placeholders : id \in Names(S)
         /\ \A p \in Prefixes, id \in Placeholders : Account(p, id) \in AccountsBut(S)
<1>1. None \notin S
  BY UndefinedAssumption, FlowAssumption
<1>2. ASSUME NEW p \in Prefixes, NEW id \in Placeholders
      PROVE  Account(p, id) \in AccountsBut(S)
  BY PlaceholdersAreNobodys, NewAccount
<1>3. Unknown \in AccountsBut(S)
  BY <1>2 DEF Unknown, Placeholders, Prefixes
<1> QED
  BY <1>1, <1>2, <1>3, PlaceholdersAreNobodys DEF Names, Opt

LEMMA NameOfAccount ==
  ASSUME NEW S, NEW name \in Names(S), name # None, NEW p \in Prefixes
  PROVE  Account(p, name) \in AccountsBut(S)
BY NewAccount DEF Names, Opt

(* Each reader makes a canonical of a message of its rail, ...             *)
LEMMA PixRead ==
  ASSUME NEW m \in PixType PROVE pixToCanonical(m) \in Canonicals
<1> DEFINE payer == m.pagador
           payee == m.recebedor
<1>1. /\ m.valor \in Opt(Nat) /\ m.chave \in Names(Payers)
      /\ payer.nome \in Names(Payees) /\ payer.cpf \in Names(Payees)
      /\ payer.ispb \in Opt(Banks) /\ payer.numero \in Opt(AccountsBut(Payees))
      /\ payee.nome \in Names(Payers) /\ payee.cpf \in Names(Payers)
      /\ payee.ispb \in Opt(Banks)
  BY DEF PixType
<1>2. (m.valor ?? 0) \in Nat
  BY <1>1 DEF ??, Opt
<1>3. (payer.numero ?? Account("", "acc-PMT")) \in AccountsBut(Payees)
  BY <1>1, Nameless DEF ??, Opt, Placeholders, Prefixes
<1>4. /\ Account("PIX-", m.chave ?? "recv-PMT") \in AccountsBut(Payers)
      /\ Account("", m.chave ?? "") \in AccountsBut(Payers)
  BY <1>1, Nameless, NameOfAccount DEF ??, Placeholders, Prefixes
<1>5. /\ [NoAgent EXCEPT !.ispb = payer.ispb] \in Agents
      /\ [NoAgent EXCEPT !.ispb = payee.ispb] \in Agents
  BY <1>1 DEF NoAgent, Agents, Opt
<1>6. /\ Party(payer.nome, payer.numero ?? Account("", "acc-PMT"), payer.cpf) \in Parties(Payees)
      /\ Party(payee.nome, Account("PIX-", m.chave ?? "recv-PMT"), payee.cpf) \in Parties(Payers)
  BY <1>1, <1>3, <1>4, PartyTyped
<1> QED
  BY <1>2, <1>4, <1>5, <1>6, NothingConverted
     DEF pixToCanonical, Canonicals, AliasTypes, Rails, Currencies, Opt

LEMMA SwiftRead ==
  ASSUME NEW m \in SwiftType PROVE swiftMt103ToCanonical(m) \in Canonicals
<1> DEFINE payer == m.ordering
           payee == m.beneficiary
           payerAccount == payer.account ?? (IF payer.name = None THEN Unknown
                                             ELSE Account("", payer.name))
<1>1. /\ m.amount \in Nat /\ m.currency \in Currencies
      /\ payer.account \in Opt(AccountsBut(Payees)) /\ payer.name \in Names(Payees)
      /\ payee.account \in Opt(AccountsBut(Payers)) /\ payee.name \in Names(Payers)
      /\ payee.iban \in Opt(AccountsBut(Payers))
      /\ (m.orderingInstitution ?? payer.bic) \in Opt(Bics)
      /\ m.accountWithInstitution \in Opt(Bics)
  BY DEF SwiftType, ??
<1>2. creditorAccount(payee) \in AccountsBut(Payers)
  BY <1>1, Nameless, NameOfAccount DEF creditorAccount, ??, Opt, Prefixes
<1>3. payerAccount \in AccountsBut(Payees)
  BY <1>1, Nameless, NameOfAccount DEF ??, Opt, Prefixes
<1>4. /\ [NoAgent EXCEPT !.bic = m.orderingInstitution ?? payer.bic] \in Agents
      /\ [NoAgent EXCEPT !.bic = m.accountWithInstitution] \in Agents
  BY <1>1 DEF NoAgent, Agents, Opt
<1>5. /\ Party(payer.name, payerAccount, None) \in Parties(Payees)
      /\ Party(payee.name, creditorAccount(payee), None) \in Parties(Payers)
  BY <1>1, <1>2, <1>3, PartyTyped, Nameless
<1> QED
  BY <1>1, <1>2, <1>4, <1>5, NothingConverted
     DEF swiftMt103ToCanonical, Canonicals, AliasTypes, Rails, Opt

LEMMA MxRead ==
  ASSUME NEW m \in MxType PROVE iso20022MxToCanonical(m) \in Canonicals
<1> DEFINE account(a) == a.IBAN ?? (a.Othr ?? Unknown)
<1>1. /\ m.IntrBkSttlmAmt \in Nat /\ m.Ccy \in Currencies
      /\ m.InstdAmt \in Opt(Nat) /\ m.XchgRate \in Opt(Pair)
      /\ m.Dbtr \in Names(Payees) /\ m.Cdtr \in Names(Payers)
      /\ m.DbtrAcct \in MxAccount(Payees) /\ m.CdtrAcct \in MxAccount(Payers)
      /\ m.DbtrAgt \in MxAgent /\ m.CdtrAgt \in MxAgent
  BY DEF MxType
<1>2. ASSUME NEW S \in {Payers, Payees}, NEW a \in MxAccount(S)
      PROVE  account(a) \in AccountsBut(S)
  BY <1>2, Nameless DEF MxAccount, ??, Opt
<1>3. ASSUME NEW a \in MxAgent
      PROVE  [bic |-> a.BICFI, routing |-> a.MmbId, ispb |-> None] \in Agents
  BY <1>3 DEF MxAgent, Agents, Opt
<1>4. (IF m.XchgRate = None THEN NoFx ELSE [rate |-> m.XchgRate, local |-> m.InstdAmt]) \in Fx
  BY <1>1, NothingConverted DEF Fx, Opt
<1>5. /\ Party(m.Dbtr, account(m.DbtrAcct), None) \in Parties(Payees)
      /\ Party(m.Cdtr, account(m.CdtrAcct), None) \in Parties(Payers)
  BY <1>1, <1>2, PartyTyped, Nameless
<1>6. account(m.CdtrAcct) \in AccountsBut(Payers)
  BY <1>1, <1>2
<1> QED
  BY <1>1, <1>3, <1>4, <1>5, <1>6
     DEF iso20022MxToCanonical, Canonicals, AliasTypes, Rails, Opt

LEMMA AchRead ==
  ASSUME NEW m \in AchType PROVE achNachaToCanonical(m) \in Canonicals
<1> DEFINE payer == m.originator
<1>1. /\ m.amount \in Nat /\ m.originatingDfi \in Banks /\ m.routingTransit \in Banks
      /\ m.account \in AccountsBut(Payers) /\ m.individualName \in Names(Payers)
      /\ m.companyName \in Names(Payees) /\ m.companyId \in DOMAIN Length \ Payees
      /\ payer.name \in Names(Payees) /\ payer.taxId \in Names(Payees)
      /\ payer.account \in Opt(AccountsBut(Payees))
  BY DEF AchType
<1>2. (payer.name ?? m.companyName) \in Names(Payees)
  BY <1>1 DEF ??
<1>3. (payer.account ?? Account("", m.companyId)) \in AccountsBut(Payees)
  BY <1>1, NewAccount DEF ??, Opt, Prefixes
<1>4. /\ [NoAgent EXCEPT !.routing = Padded(m.originatingDfi)] \in Agents
      /\ [NoAgent EXCEPT !.routing = m.routingTransit] \in Agents
  BY <1>1, KnownBanks DEF NoAgent, Agents, Opt
<1>5. /\ Party(payer.name ?? m.companyName, payer.account ?? Account("", m.companyId),
               payer.taxId) \in Parties(Payees)
      /\ Party(m.individualName, m.account, None) \in Parties(Payers)
  BY <1>1, <1>2, <1>3, PartyTyped, Nameless
<1>6. At(m.routingTransit, m.account) \in AccountsBut(Payers)
  BY <1>1, BankPutInFront
<1> QED
  BY <1>1, <1>4, <1>5, <1>6, NothingConverted
     DEF achNachaToCanonical, Canonicals, AliasTypes, Rails, Currencies, Opt

LEMMA FednowRead ==
  ASSUME NEW m \in FednowType PROVE fednowToCanonical(m) \in Canonicals
<1>1. /\ m.IntrBkSttlmAmt \in Nat /\ m.DbtrAgt \in Banks /\ m.CdtrAgt \in Banks
      /\ m.Dbtr \in Names(Payees) /\ m.Cdtr \in Names(Payers)
      /\ m.DbtrAcct \in AccountsBut(Payees) /\ m.CdtrAcct \in AccountsBut(Payers)
  BY DEF FednowType
<1>2. /\ At(m.DbtrAgt, m.DbtrAcct) \in AccountsBut(Payees)
      /\ At(m.CdtrAgt, m.CdtrAcct) \in AccountsBut(Payers)
  BY <1>1, BankPutInFront
<1>3. /\ Party(m.Dbtr, At(m.DbtrAgt, m.DbtrAcct), None) \in Parties(Payees)
      /\ Party(m.Cdtr, At(m.CdtrAgt, m.CdtrAcct), None) \in Parties(Payers)
  BY <1>1, <1>2, PartyTyped, Nameless
<1>4. /\ [NoAgent EXCEPT !.routing = m.DbtrAgt] \in Agents
      /\ [NoAgent EXCEPT !.routing = m.CdtrAgt] \in Agents
  BY <1>1 DEF NoAgent, Agents, Opt
<1> QED
  BY <1>1, <1>2, <1>3, <1>4, NothingConverted
     DEF fednowToCanonical, Canonicals, AliasTypes, Rails, Currencies, Opt

LEMMA BrebRead ==
  ASSUME NEW m \in BrebType PROVE brebToCanonical(m) \in Canonicals
<1> DEFINE id(p) == IF p.nit # None THEN Account("", p.nit)
                    ELSE IF p.cc # None THEN Account("", p.cc) ELSE p.numeroCuenta
           payer == m.pagador
           payee == m.beneficiario
<1>1. /\ m.valor \in Nat /\ payer \in BrebSide(Payees) /\ payee \in BrebSide(Payers)
      /\ m.llave \in AccountsBut(Payers)
  BY DEF BrebType
<1>2. ASSUME NEW S \in {Payers, Payees}, NEW p \in BrebSide(S)
      PROVE  /\ p.codigoEntidad \in Banks /\ p.nombre \in Names(S)
             /\ (p.nit ?? p.cc) \in Names(S)
             /\ id(p) \in Opt(AccountsBut(S))
             /\ [NoAgent EXCEPT !.ispb = p.codigoEntidad] \in Agents
  <2>1. /\ p.codigoEntidad \in Banks /\ p.nombre \in Names(S) /\ p.nit \in Names(S)
        /\ p.cc \in Names(S) /\ p.numeroCuenta \in Opt(AccountsBut(S))
    BY <1>2 DEF BrebSide
  <2>2. id(p) \in Opt(AccountsBut(S))
    BY <2>1, NameOfAccount DEF Opt, Prefixes
  <2> QED
    BY <2>1, <2>2 DEF ??, NoAgent, Agents, Opt
<1>3. /\ (id(payer) ?? Unknown) \in AccountsBut(Payees)
      /\ (id(payee) ?? m.llave) \in AccountsBut(Payers)
  BY <1>1, <1>2, Nameless DEF ??, Opt
<1>4. /\ Party(payer.nombre, At(payer.codigoEntidad, id(payer) ?? Unknown),
               payer.nit ?? payer.cc) \in Parties(Payees)
      /\ Party(payee.nombre, At(payee.codigoEntidad, id(payee) ?? m.llave),
               payee.nit ?? payee.cc) \in Parties(Payers)
  BY <1>1, <1>2, <1>3, BankPutInFront, PartyTyped
<1> QED
  BY <1>1, <1>2, <1>4, NothingConverted
     DEF brebToCanonical, Canonicals, AliasTypes, Rails, Currencies, Opt

LEMMA MappedAlias ==
  ASSUME NEW S, NEW a \in AccountsBut(S), NEW mapping \in Mappings
  PROVE  applyTransformation(a, mapping) \in AccountsBut(S)
<1>1. /\ Strip(a, {"PIX-"}) \in AccountsBut(S)
      /\ Strip(a, {"CLABE-"}) \in AccountsBut(S)
  BY PrefixTakenOff
<1>2. CASE mapping = "strip_pix_prefix"
  BY <1>1, <1>2 DEF applyTransformation
<1>3. CASE mapping = "strip_clabe_prefix"
  BY <1>1, <1>3 DEF applyTransformation
<1>4. CASE mapping \notin {"strip_pix_prefix", "strip_clabe_prefix"}
  BY <1>4 DEF applyTransformation
<1> QED
  BY <1>2, <1>3, <1>4

LEMMA RequestRead ==
  ASSUME NEW req \in RequestType, NEW mapping \in Mappings, NEW rail \in ApiRails
  PROVE  requestToCanonical(rail, req, mapping) \in Canonicals
<1> DEFINE payer == req.debtor
           payee == req.creditor
<1>1. /\ req.amount \in Nat /\ req.currency \in Opt(Currencies)
      /\ payer.name \in Names(Payees) /\ payer.alias \in AccountsBut(Payees)
      /\ payee.name \in Names(Payers) /\ payee.alias \in AccountsBut(Payers)
  BY DEF RequestType
<1>2. \A c \in Currencies : (req.currency ?? c) \in Currencies
  BY <1>1 DEF ??, Opt
<1>3. /\ Party(payer.name, payer.alias, None) \in Parties(Payees)
      /\ Party(payee.name, payee.alias, None) \in Parties(Payers)
      /\ Party(payer.name ?? "Unknown", payer.alias, None) \in Parties(Payees)
      /\ Party(payee.name ?? "Unknown", payee.alias, None) \in Parties(Payers)
  BY <1>1, PartyTyped, Nameless DEF ??, Placeholders
<1>4. /\ NoAgent \in Agents /\ [NoAgent EXCEPT !.ispb = SimulatedEntity] \in Agents
  BY KnownBanks DEF NoAgent, Agents, Opt
<1>5. /\ \A p \in Prefixes : Strip(payee.alias, {p}) \in AccountsBut(Payers)
      /\ applyTransformation(payee.alias, mapping) \in AccountsBut(Payers)
  BY <1>1, PrefixTakenOff, MappedAlias
<1>6. CASE rail = "PIX"
  <2>1. pixRequestToCanonical(req, mapping) \in Canonicals
    BY <1>1, <1>2, <1>3, <1>4, <1>5, NothingConverted
       DEF pixRequestToCanonical, Canonicals, AliasTypes, Rails, Currencies, Prefixes, Opt
  <2> QED
    BY <1>6, <2>1 DEF requestToCanonical
<1>7. CASE rail = "SPEI"
  <2>1. speiToCanonical(req, mapping) \in Canonicals
    BY <1>1, <1>2, <1>3, <1>4, <1>5, NothingConverted
       DEF speiToCanonical, Canonicals, AliasTypes, Rails, Currencies, Prefixes, Opt
  <2> QED
    BY <1>7, <2>1 DEF requestToCanonical
<1>8. CASE rail = "BRE_B"
  <2>1. brebRequestToCanonical(req) \in Canonicals
    BY <1>1, <1>2, <1>3, <1>4, <1>5, NothingConverted
       DEF brebRequestToCanonical, Canonicals, AliasTypes, Rails, Currencies, Prefixes, Opt
  <2> QED
    BY <1>8, <2>1 DEF requestToCanonical
<1> QED
  BY <1>6, <1>7, <1>8 DEF ApiRails

LEMMA CentsAreNat ==
  ASSUME NEW v \in Nat PROVE Cents(v) \in Nat
BY DEF Cents

LEMMA Quotient ==
  ASSUME NEW a \in Nat, NEW b \in Nat, NEW d \in Nat \ {0}
  PROVE  (a * b) \div d \in Nat
<1>1. a * b \in Nat
  OBVIOUS
<1> DEFINE p == a * b
<1> HIDE DEF p
<1>2. p \in Nat => p \div d \in Nat
  OBVIOUS
<1> QED
  BY <1>1, <1>2 DEF p

LEMMA CanonicalParts ==
  ASSUME NEW c \in Canonicals
  PROVE  /\ c.value \in Nat /\ c.ccy \in Currencies /\ c.rail \in Rails
         /\ c.instd \in Opt(Nat) /\ c.fx.rate \in Opt(Pair) /\ c.fx.local \in Opt(Nat)
         /\ c.origin \in Agents /\ c.destination \in Agents
         /\ c.debtor.name \in Names(Payees) /\ c.debtor.account \in AccountsBut(Payees)
         /\ c.debtor.taxId \in Names(Payees)
         /\ c.creditor.name \in Names(Payers) /\ c.creditor.account \in AccountsBut(Payers)
         /\ c.creditor.taxId \in Names(Payers)
         /\ c.alias.type \in AliasTypes /\ c.alias.value \in AccountsBut(Payers)
BY DEF Canonicals, Fx, Parties

LEMMA AgentParts ==
  ASSUME NEW a \in Agents
  PROVE  a.bic \in Opt(Bics) /\ a.routing \in Opt(Banks) /\ a.ispb \in Opt(Banks)
BY DEF Agents

(* ... and each writer makes a message its rail's reader takes.            *)
LEMMA AdapterWritten ==
  ASSUME NEW c \in Canonicals
  PROVE  canonicalToPix(c) \in AdapterType /\ canonicalToSpei(c) \in AdapterType
<1>1. /\ Party(c.debtor.name, c.debtor.account, None) \in Parties(Payees)
      /\ Party(c.creditor.name, c.creditor.account, None) \in Parties(Payers)
  BY CanonicalParts, PartyTyped, Nameless
<1> QED
  BY <1>1, CanonicalParts DEF canonicalToSpei, canonicalToPix, AdapterType

LEMMA SwiftWritten ==
  ASSUME NEW c \in Canonicals PROVE canonicalToSwiftMt103(c) \in SwiftType
<1> DEFINE own == {"PIX-", "SPEI-", "SWIFT-"}
<1>1. /\ Strip(c.debtor.account, own) \in AccountsBut(Payees)
      /\ Strip(c.creditor.account, own) \in AccountsBut(Payers)
  BY CanonicalParts, PrefixTakenOff
<1>2. c.origin.bic \in Opt(Bics) /\ c.destination.bic \in Opt(Bics)
  BY CanonicalParts, AgentParts
<1> QED
  BY <1>1, <1>2, CanonicalParts DEF canonicalToSwiftMt103, SwiftType, Opt

LEMMA MxWritten ==
  ASSUME NEW c \in Canonicals PROVE canonicalToIso20022Mx(c) \in MxType
<1>1. ASSUME NEW S, NEW a \in AccountsBut(S), NEW type, NEW value \in Opt(AccountsBut(S))
      PROVE  buildAccount(a, type, value) \in MxAccount(S)
  <2>1. Strip(a, {"PIX-", "SPEI-", "SWIFT-"}) \in AccountsBut(S)
    BY PrefixTakenOff
  <2> QED
    BY <1>1, <2>1 DEF buildAccount, MxAccount, ??, Opt
<1>2. dbtrAcct(c) \in MxAccount(Payees) /\ cdtrAcct(c) \in MxAccount(Payers)
  BY <1>1, CanonicalParts DEF dbtrAcct, cdtrAcct, Opt
<1>3. /\ [BICFI |-> c.origin.bic, MmbId |-> c.origin.routing] \in MxAgent
      /\ [BICFI |-> c.destination.bic, MmbId |-> c.destination.routing] \in MxAgent
  BY CanonicalParts, AgentParts DEF MxAgent
<1>4. Cents(c.value) \in Nat /\ InstdAmt(c) \in Opt(Nat)
  BY CanonicalParts, CentsAreNat DEF InstdAmt, Opt
<1> QED
  BY <1>2, <1>3, <1>4, CanonicalParts DEF canonicalToIso20022Mx, MxType

LEMMA RoutingInFront ==
  ASSUME NEW S, NEW alias \in AccountsBut(S), NEW fallback \in AccountsBut(S),
         NEW bank \in Banks
  PROVE  /\ parseAbaAlias(alias, fallback).bank \in Banks
         /\ parseAbaAlias(alias, fallback).account \in AccountsBut(S)
         /\ extractRtnAndAccount(alias, bank, fallback).bank \in Banks
         /\ extractRtnAndAccount(alias, bank, fallback).account \in AccountsBut(S)
<1>1. /\ HasAba(alias) => /\ Head(alias.banks) \in Banks
                          /\ Strip(Behind(alias), {"PIX-", "SPEI-"}) \in AccountsBut(S)
      /\ Strip(fallback, {"PIX-", "SPEI-"}) \in AccountsBut(S)
  BY BankTakenOff, PrefixTakenOff DEF HasAba
<1> QED
  BY <1>1, KnownBanks DEF parseAbaAlias, extractRtnAndAccount

LEMMA AchWritten ==
  ASSUME NEW c \in Canonicals PROVE canonicalToAchNacha(c) \in AchType
<1> DEFINE payee == parseAbaAlias(c.alias.value, c.creditor.account)
           payer == parseAbaAlias(At(c.origin.routing ?? NoAba,
                                     Strip(c.debtor.account, {"PIX-", "SPEI-"})),
                                  c.debtor.account)
<1>1. (c.origin.routing ?? NoAba) \in Banks
  BY CanonicalParts, AgentParts, KnownBanks DEF ??, Opt
<1>2. At(c.origin.routing ?? NoAba, Strip(c.debtor.account, {"PIX-", "SPEI-"}))
         \in AccountsBut(Payees)
  BY <1>1, CanonicalParts, PrefixTakenOff, BankPutInFront
<1>3. /\ payee.bank \in Banks /\ payee.account \in AccountsBut(Payers)
      /\ payer.bank \in Banks /\ payer.account \in AccountsBut(Payees)
  BY <1>2, CanonicalParts, RoutingInFront, KnownBanks
<1>4. /\ CutAt(payee.account, 17) \in AccountsBut(Payers)
      /\ (c.origin.routing ?? payer.bank) \in Banks
  BY <1>3, CutKeepsId, CanonicalParts, AgentParts DEF ??, Opt
<1>5. /\ (c.creditor.name ?? "BENEFICIARY") \in Names(Payers)
      /\ (c.debtor.name ?? "MIPIT") \in Names(Payees)
      /\ (c.debtor.taxId ?? "1234567890") \in DOMAIN Length \ Payees
  BY CanonicalParts, Nameless, PlaceholdersAreNobodys DEF ??, Placeholders, Names, Opt
<1>6. Cents(c.value) \in Nat
  BY CanonicalParts, CentsAreNat
<1> HIDE DEF payee, payer
<1>7. canonicalToAchNacha(c) =
        [amount |-> Cents(c.value),
         originatingDfi |-> c.origin.routing ?? payer.bank,
         routingTransit |-> payee.bank,
         account |-> CutAt(payee.account, 17),
         individualName |-> c.creditor.name ?? "BENEFICIARY",
         companyName |-> c.debtor.name ?? "MIPIT",
         companyId |-> c.debtor.taxId ?? "1234567890",
         originator |-> [name |-> c.debtor.name ?? "MIPIT", account |-> payer.account,
                         taxId |-> c.debtor.taxId]]
  BY DEF canonicalToAchNacha, payee, payer
<1> QED
  BY <1>3, <1>4, <1>5, <1>6, <1>7, CanonicalParts DEF AchType, Opt

LEMMA AmountInDollars ==
  ASSUME NEW c \in Canonicals PROVE amountUsd(c) \in Nat
<1>1. c.fx.rate # None => (c.value * c.fx.rate[1]) \div c.fx.rate[2] \in Nat
  <2>1. c.fx.rate # None => c.fx.rate[1] \in Nat /\ c.fx.rate[2] \in Nat \ {0}
    BY CanonicalParts DEF Opt, Pair
  <2> QED
    BY <2>1, Quotient, CanonicalParts
<1> QED
  BY <1>1, CanonicalParts DEF amountUsd, Opt

LEMMA FednowWritten ==
  ASSUME NEW c \in Canonicals PROVE canonicalToFednow(c) \in FednowType
<1> DEFINE payee == extractRtnAndAccount(c.alias.value, c.destination.routing ?? DefaultAba,
                                         c.creditor.account)
           payer == extractRtnAndAccount(c.debtor.account, c.origin.routing ?? DefaultAba,
                                         c.debtor.account)
<1>1. (c.origin.routing ?? DefaultAba) \in Banks /\ (c.destination.routing ?? DefaultAba) \in Banks
  BY CanonicalParts, AgentParts, KnownBanks DEF ??, Opt
<1>2. /\ payee.bank \in Banks /\ payee.account \in AccountsBut(Payers)
      /\ payer.bank \in Banks /\ payer.account \in AccountsBut(Payees)
  BY <1>1, CanonicalParts, RoutingInFront
<1>3. CutAt(payee.account, 34) \in AccountsBut(Payers)
      /\ CutAt(payer.account, 34) \in AccountsBut(Payees)
  BY <1>2, CutKeepsId
<1>4. Cents(amountUsd(c)) \in Nat
  BY AmountInDollars, CentsAreNat
<1> HIDE DEF payee, payer
<1>5. canonicalToFednow(c) =
        [IntrBkSttlmAmt |-> Cents(amountUsd(c)),
         DbtrAgt |-> payer.bank, Dbtr |-> c.debtor.name, DbtrAcct |-> CutAt(payer.account, 34),
         CdtrAgt |-> payee.bank, Cdtr |-> c.creditor.name, CdtrAcct |-> CutAt(payee.account, 34)]
  BY DEF canonicalToFednow, payee, payer
<1> QED
  BY <1>2, <1>3, <1>4, <1>5, CanonicalParts DEF FednowType

LEMMA BrebWritten ==
  ASSUME NEW c \in Canonicals PROVE canonicalToBreb(c) \in BrebType
<1> DEFINE bare(acct) == IF HasBank(acct) THEN Behind(acct) ELSE acct
           side(p, bank, name) ==
             [codigoEntidad |-> bank ?? SimulatedEntity, nombre |-> p.name ?? name,
              nit |-> IF p.taxId \in Companies THEN p.taxId ELSE None,
              cc |-> IF p.taxId \in Companies THEN None ELSE p.taxId,
              numeroCuenta |-> bare(p.account)]
<1>1. ASSUME NEW S, NEW a \in AccountsBut(S) PROVE bare(a) \in AccountsBut(S)
  BY BankTakenOff
<1>2. ASSUME NEW S \in {Payers, Payees}, NEW p \in Parties(S), NEW bank \in Opt(Banks),
             NEW name \in Placeholders
      PROVE  side(p, bank, name) \in BrebSide(S)
  <2>1. p.name \in Names(S) /\ p.account \in AccountsBut(S) /\ p.taxId \in Names(S)
    BY <1>2 DEF Parties
  <2>2. bare(p.account) \in AccountsBut(S)
    BY <1>1, <2>1
  <2>3. (bank ?? SimulatedEntity) \in Banks /\ (p.name ?? name) \in Names(S)
    BY <2>1, KnownBanks, Nameless DEF ??, Opt
  <2>4. None \in Names(S)
    BY Nameless
  <2> HIDE DEF bare
  <2> QED
    BY <2>1, <2>2, <2>3, <2>4 DEF BrebSide, Opt
<1>3. c.debtor \in Parties(Payees) /\ c.creditor \in Parties(Payers)
      /\ c.origin.ispb \in Opt(Banks) /\ c.destination.ispb \in Opt(Banks)
  BY CanonicalParts, AgentParts DEF Canonicals
<1>4. /\ side(c.debtor, c.origin.ispb, "REMITENTE") \in BrebSide(Payees)
      /\ side(c.creditor, c.destination.ispb, "BENEFICIARIO") \in BrebSide(Payers)
  BY <1>2, <1>3 DEF Placeholders
<1>5. Strip(IF c.alias.type = "LLAVE_BREB" THEN c.alias.value ELSE bare(c.creditor.account),
            {"BREB-"}) \in AccountsBut(Payers)
  BY <1>1, CanonicalParts, PrefixTakenOff
<1>6. Cents(c.value) \in Nat
  BY CanonicalParts, CentsAreNat
<1> QED
  BY <1>4, <1>5, <1>6 DEF canonicalToBreb, BrebType

(***************************************************************************)
(* The parties stay apart                                                  *)
(***************************************************************************)

ReadType(rail) ==
    CASE rail = "PIX" -> PixType [] rail = "SWIFT_MT103" -> SwiftType
      [] rail = "ISO20022_MX" -> MxType [] rail = "ACH_NACHA" -> AchType
      [] rail = "FEDNOW" -> FednowType [] rail = "BRE_B" -> BrebType

WrittenType(rail) == IF rail \in {"PIX", "SPEI"} THEN AdapterType ELSE ReadType(rail)

LEMMA Read ==
  ASSUME NEW rail \in NativeRails, NEW m \in ReadType(rail)
  PROVE  toCanonical(rail, m) \in Canonicals
<1>1. CASE rail = "PIX"
  BY <1>1, PixRead DEF toCanonical, ReadType
<1>2. CASE rail = "SWIFT_MT103"
  BY <1>2, SwiftRead DEF toCanonical, ReadType
<1>3. CASE rail = "ISO20022_MX"
  BY <1>3, MxRead DEF toCanonical, ReadType
<1>4. CASE rail = "ACH_NACHA"
  BY <1>4, AchRead DEF toCanonical, ReadType
<1>5. CASE rail = "FEDNOW"
  BY <1>5, FednowRead DEF toCanonical, ReadType
<1>6. CASE rail = "BRE_B"
  BY <1>6, BrebRead DEF toCanonical, ReadType
<1> QED
  BY <1>1, <1>2, <1>3, <1>4, <1>5, <1>6 DEF NativeRails, Rails

LEMMA Written ==
  ASSUME NEW rail \in Rails, NEW c \in Canonicals
  PROVE  fromCanonical(rail, c) \in WrittenType(rail)
<1>1. CASE rail \in {"PIX", "SPEI"}
  BY <1>1, AdapterWritten DEF fromCanonical, WrittenType
<1>2. CASE rail = "SWIFT_MT103"
  BY <1>2, SwiftWritten DEF fromCanonical, WrittenType, ReadType
<1>3. CASE rail = "ISO20022_MX"
  BY <1>3, MxWritten DEF fromCanonical, WrittenType, ReadType
<1>4. CASE rail = "ACH_NACHA"
  BY <1>4, AchWritten DEF fromCanonical, WrittenType, ReadType
<1>5. CASE rail = "FEDNOW"
  BY <1>5, FednowWritten DEF fromCanonical, WrittenType, ReadType
<1>6. CASE rail = "BRE_B"
  BY <1>6, BrebWritten DEF fromCanonical, WrittenType, ReadType
<1> QED
  BY <1>1, <1>2, <1>3, <1>4, <1>5, <1>6 DEF Rails

LEMMA Normalized ==
  ASSUME NEW c \in Canonicals PROVE normalizeCurrency(c) \in Canonicals
<1> DEFINE local == LocalCurrency[c.rail]
           fx == [rate |-> <<Rate[local], Rate[c.ccy]>>,
                  local |-> Cents((c.value * Rate[local]) \div Rate[c.ccy])]
<1>1. local \in Currencies
  BY CanonicalParts DEF LocalCurrency, Currencies
<1>2. Rate[local] \in Nat \ {0} /\ Rate[c.ccy] \in Nat \ {0}
  BY <1>1, CanonicalParts, TranslationAssumption
<1>3. Cents((c.value * Rate[local]) \div Rate[c.ccy]) \in Nat
  BY <1>2, Quotient, CentsAreNat, CanonicalParts
<1>4. fx \in Fx
  BY <1>2, <1>3 DEF Fx, Opt, Pair
<1> HIDE DEF local, fx
<1>5. normalizeCurrency(c) = IF c.ccy = local THEN c ELSE [c EXCEPT !.fx = fx]
  BY DEF normalizeCurrency, local, fx
<1> QED
  BY <1>4, <1>5 DEF Canonicals

LEMMA PartyFields ==
  ASSUME NEW f \in Fields
  PROVE  /\ Payer[f] \in DOMAIN Length \ Payees /\ Payer[f] \in Names(Payees)
         /\ Payee[f] \in DOMAIN Length \ Payers /\ Payee[f] \in Names(Payers)
         /\ \A p \in Prefixes : /\ Account(p, Payer[f]) \in AccountsBut(Payees)
                                /\ Account(p, Payee[f]) \in AccountsBut(Payers)
<1>1. Payer[f] \in Payers /\ Payee[f] \in Payees
  BY DEF Payers, Payees
<1>2. Payer[f] \in DOMAIN Length \ Payees /\ Payee[f] \in DOMAIN Length \ Payers
  BY <1>1, FlowAssumption
<1> QED
  BY <1>2, NewAccount DEF Names, Opt

\* An account of the payee that is written as he was given it
IsFresh(a) == a.id \in Payees /\ a.banks = <<>> /\ a.left = Length[a.id]

LEMMA RequestsTyped ==
  ASSUME NEW r, NEW req \in Requests(r)
  PROVE  /\ req \in RequestType /\ "creditor" \in DOMAIN req
         /\ IsFresh(req.creditor.alias)
<1>1. /\ req.amount \in Nat \ {0} /\ req.currency \in Opt(Currencies)
      /\ req.debtor.name \in Maybe(Payer.name) /\ req.debtor.alias \in Aliases(Payer, r)
      /\ req.creditor.name \in Maybe(Payee.name) /\ req.creditor.alias \in Aliases(Payee, r)
      /\ req = [amount |-> req.amount, currency |-> req.currency, debtor |-> req.debtor,
                creditor |-> req.creditor]
      /\ req.debtor = [name |-> req.debtor.name, alias |-> req.debtor.alias]
      /\ req.creditor = [name |-> req.creditor.name, alias |-> req.creditor.alias]
  BY FlowAssumption DEF Requests, Opt, Currencies
<1>2. Maybe(Payer.name) \subseteq Names(Payees) /\ Maybe(Payee.name) \subseteq Names(Payers)
  BY PartyFields, Nameless DEF Maybe, Fields
<1>3. Aliases(Payer, r) \subseteq AccountsBut(Payees)
  BY PartyFields DEF Aliases, Fields, Prefixes
<1>4. Aliases(Payee, r) \subseteq AccountsBut(Payers)
  BY PartyFields DEF Aliases, Fields, Prefixes
<1>5. "creditor" \in DOMAIN req
  BY DEF Requests
<1>6. IsFresh(req.creditor.alias)
  <2>1. \E p \in Prefixes, id \in {Payee.key, Payee.clabe} : req.creditor.alias = Account(p, id)
    BY <1>1 DEF Aliases, Prefixes
  <2> QED
    BY <2>1 DEF Account, Payees, Fields, IsFresh
<1> QED
  BY <1>1, <1>2, <1>3, <1>4, <1>5, <1>6 DEF RequestType

(* The fields of a message of PIX, and that it has no others.              *)
PixPayers == [nome : {Payer.name}, cpf : Maybe(Payer.person), ispb : {SimulatedEntity},
              numero : Maybe(Account("", Payer.account))]
PixPayees == [nome : Maybe(Payee.name), cpf : Maybe(Payee.person),
              ispb : Maybe(SimulatedEntity)]

LEMMA PixMessagesMadeOf ==
  PixMessages = [valor : Maybe(1000) \cup Amounts, chave : Maybe(Payee.key),
                 pagador : PixPayers, recebedor : PixPayees]
BY DEF PixMessages, PixPayers, PixPayees

LEMMA PixParties ==
  ASSUME NEW m \in PixMessages
  PROVE  /\ m.valor \in Maybe(1000) \cup Amounts /\ m.chave \in Maybe(Payee.key)
         /\ m.pagador \in PixPayers /\ m.recebedor \in PixPayees
BY PixMessagesMadeOf

LEMMA PixShape ==
  ASSUME NEW m \in PixMessages
  PROVE  m = [valor |-> m.valor, chave |-> m.chave, pagador |-> m.pagador,
              recebedor |-> m.recebedor]
BY PixMessagesMadeOf

LEMMA MessagesTyped ==
  ASSUME NEW rail \in NativeRails, NEW m \in Messages(rail)
  PROVE  m \in ReadType(rail)
<1>1. SimulatedEntity \in Banks /\ NearBank \in Banks /\ FarBank \in Banks
      /\ Entity("00000007") \in Banks
  <2>1. ASSUME NEW d \in {8, 9}, NEW code \in Codes
        PROVE  [digits |-> d, code |-> code, check |-> TRUE] \in Banks
    BY Zenon DEF Banks
  <2> QED
    BY <2>1 DEF SimulatedEntity, NearBank, FarBank, Aba, Entity, Codes
<1>2. \A f \in Fields : /\ Maybe(Payer[f]) \subseteq Names(Payees)
                        /\ Maybe(Payee[f]) \subseteq Names(Payers)
  BY PartyFields, Nameless DEF Maybe
<1>3. \A f \in Fields :
         /\ Account("", Payer[f]) \in AccountsBut(Payees)
         /\ Account("", Payee[f]) \in AccountsBut(Payers)
  BY PartyFields DEF Prefixes
<1>4. Amounts \subseteq Nat
  BY FlowAssumption
<1>5. CASE rail = "PIX"
  <2>1. m \in PixMessages
    BY <1>5 DEF Messages
  <2>2. m \in PixType
    <3>1. m.valor \in Opt(Nat)
      <4> DEFINE v == m.valor
      <4>1. v = None \/ v \in {1000} \cup Amounts
        <5>1. v \in Maybe(1000) \cup Amounts
          BY <2>1, PixParties
        <5> HIDE DEF v
        <5> QED
          BY <5>1 DEF Maybe
      <4>2. {1000} \cup Amounts \subseteq Nat
        BY <1>4
      <4> HIDE DEF v
      <4>3. v \in Opt(Nat)
        BY <4>1, <4>2 DEF Opt
      <4> QED
        BY <4>3 DEF v
    <3>2. m.chave \in Names(Payers)
      BY <1>2, <2>1, PixParties DEF Fields
    <3>3. ASSUME NEW p \in PixPayers
          PROVE  p \in [nome : Names(Payees), cpf : Names(Payees), ispb : Opt(Banks),
                        numero : Opt(AccountsBut(Payees))]
      <4>1. Payer.name \in Names(Payees) /\ Maybe(Payer.person) \subseteq Names(Payees)
        BY <1>2, PartyFields DEF Fields
      <4>2. SimulatedEntity \in Opt(Banks)
            /\ Maybe(Account("", Payer.account)) \subseteq Opt(AccountsBut(Payees))
        BY <1>1, <1>3 DEF Maybe, Opt, Fields
      <4> QED
        BY <4>1, <4>2 DEF PixPayers
    <3>4. ASSUME NEW p \in PixPayees
          PROVE  p \in [nome : Names(Payers), cpf : Names(Payers), ispb : Opt(Banks)]
      <4>1. Maybe(Payee.name) \subseteq Names(Payers) /\ Maybe(Payee.person) \subseteq Names(Payers)
        BY <1>2 DEF Fields
      <4>2. Maybe(SimulatedEntity) \subseteq Opt(Banks)
        BY <1>1 DEF Maybe, Opt
      <4> QED
        BY <4>1, <4>2 DEF PixPayees
    <3>5. m.pagador \in PixPayers /\ m.recebedor \in PixPayees
      BY <2>1, PixParties
    <3>6. m = [valor |-> m.valor, chave |-> m.chave, pagador |-> m.pagador,
               recebedor |-> m.recebedor]
      BY <2>1, PixShape
    <3> QED
      BY <3>1, <3>2, <3>3, <3>4, <3>5, <3>6 DEF PixType
  <2> QED
    BY <1>5, <2>2 DEF ReadType
<1>6. CASE rail = "SWIFT_MT103"
  <2>1. m \in SwiftMessages
    BY <1>6 DEF Messages
  <2>2. m \in SwiftType
    BY <1>1, <1>2, <1>3, <1>4, <2>1
       DEF SwiftMessages, SwiftType, Opt, Maybe, Fields, Currencies, Bics
  <2> QED
    BY <1>6, <2>2 DEF ReadType
<1>7. CASE rail = "ISO20022_MX"
  <2>1. m \in MxMessages
    BY <1>7 DEF Messages
  <2>2. m \in MxType
    <3>1. At(FarBank, Account("", Payee.account)) \in AccountsBut(Payers)
      BY <1>1, <1>3, BankPutInFront DEF Fields
    <3>2. ASSUME NEW S, NEW p, {Account("", p.iban), Account("", p.account)} \subseteq AccountsBut(S)
          PROVE  MxAccounts(p) \subseteq MxAccount(S)
      <4>1. [IBAN |-> Account("", p.iban), Othr |-> None] \in MxAccount(S)
        BY <3>2 DEF MxAccount, Opt
      <4>2. [IBAN |-> None, Othr |-> Account("", p.account)] \in MxAccount(S)
        BY <3>2 DEF MxAccount, Opt
      <4>3. [IBAN |-> None, Othr |-> None] \in MxAccount(S)
        BY DEF MxAccount, Opt
      <4> QED
        BY <4>1, <4>2, <4>3 DEF MxAccounts
    <3>3. /\ MxAccounts(Payer) \subseteq MxAccount(Payees)
          /\ MxAccounts(Payee) \subseteq MxAccount(Payers)
          /\ MxAccountAtBank(Payee) \in MxAccount(Payers)
      BY <1>3, <3>1, <3>2 DEF MxAccountAtBank, MxAccount, Opt, Fields
    <3>4. /\ m.DbtrAcct \in MxAccounts(Payer)
          /\ m.CdtrAcct \in MxAccounts(Payee) \cup {MxAccountAtBank(Payee)}
      BY <2>1 DEF MxMessages
    <3>5. /\ m.IntrBkSttlmAmt \in Amounts /\ m.Ccy \in {"USD", "EUR"}
          /\ m.InstdAmt \in {None, 0, 2000} /\ m.XchgRate \in Maybe(<<2, 1>>)
          /\ m.DbtrAgt \in [BICFI : {"OIBIC"}, MmbId : {None}]
          /\ m.CdtrAgt \in [BICFI : {None}, MmbId : Maybe(FarBank)]
          /\ m.Dbtr = Payer.name /\ m.Cdtr = Payee.name
          /\ m = [IntrBkSttlmAmt |-> m.IntrBkSttlmAmt, Ccy |-> m.Ccy, InstdAmt |-> m.InstdAmt,
                  XchgRate |-> m.XchgRate, DbtrAgt |-> m.DbtrAgt, CdtrAgt |-> m.CdtrAgt,
                  Dbtr |-> m.Dbtr, Cdtr |-> m.Cdtr, DbtrAcct |-> m.DbtrAcct,
                  CdtrAcct |-> m.CdtrAcct]
      <4>1. m.InstdAmt \in {None, 0, 2000} /\ m.IntrBkSttlmAmt \in Amounts
        BY <2>1 DEF MxMessages
      <4>2. m.Ccy \in {"USD", "EUR"} /\ m.XchgRate \in Maybe(<<2, 1>>)
        BY <2>1 DEF MxMessages
      <4>3. m.DbtrAgt \in [BICFI : {"OIBIC"}, MmbId : {None}]
        BY <2>1 DEF MxMessages
      <4>4. m.CdtrAgt \in [BICFI : {None}, MmbId : Maybe(FarBank)]
        BY <2>1 DEF MxMessages
      <4>5. m.Dbtr = Payer.name /\ m.Cdtr = Payee.name
        BY <2>1 DEF MxMessages
      <4> QED
        BY <2>1, <4>1, <4>2, <4>3, <4>4, <4>5 DEF MxMessages
    <3>6. m.DbtrAgt \in MxAgent /\ m.CdtrAgt \in MxAgent
      BY <1>1, <3>5 DEF MxAgent, Opt, Bics, Maybe
    <3>7. <<2, 1>> \in Pair
      BY DEF Pair
    <3>8. m.XchgRate \in Opt(Pair) /\ m.InstdAmt \in Opt(Nat) /\ m.Ccy \in Currencies
      <4>1. m.XchgRate \in Opt(Pair)
        BY <3>5, <3>7 DEF Opt, Maybe
      <4>2. m.InstdAmt = None \/ m.InstdAmt = 0 \/ m.InstdAmt = 2000
        BY <3>5
      <4> QED
        BY <3>5, <4>1, <4>2 DEF Opt, Currencies
    <3> QED
      BY <1>4, <3>3, <3>4, <3>5, <3>6, <3>8, PartyFields DEF MxType, Fields
  <2> QED
    BY <1>7, <2>2 DEF ReadType
<1>8. CASE rail = "ACH_NACHA"
  <2>1. m \in AchMessages
    BY <1>8 DEF Messages
  <2>2. m \in AchType
    <3>1. CutAt(Account("", Payee.iban), 17) \in AccountsBut(Payers)
      BY <1>3, CutKeepsId DEF Fields
    <3>2. m.amount \in Nat
      BY <1>4, <2>1, CentsAreNat DEF AchMessages
    <3>3. /\ m.originator \in {[name |-> Payer.name, account |-> Account("", Payer.account),
                               taxId |-> Payer.person],
                              [name |-> None, account |-> None, taxId |-> None]}
          /\ m.originatingDfi = NearBank /\ m.routingTransit = FarBank
          /\ m.account \in {Account("", Payee.account), CutAt(Account("", Payee.iban), 17)}
          /\ m.individualName = Payee.name /\ m.companyName = Payer.name
          /\ m.companyId = Payer.person
          /\ m = [amount |-> m.amount, originatingDfi |-> m.originatingDfi,
                  routingTransit |-> m.routingTransit, account |-> m.account,
                  individualName |-> m.individualName, companyName |-> m.companyName,
                  companyId |-> m.companyId, originator |-> m.originator]
      BY <2>1 DEF AchMessages
    <3>4. m.originator \in [name : Names(Payees), account : Opt(AccountsBut(Payees)),
                            taxId : Names(Payees)]
      <4>1. /\ Payer.name \in Names(Payees) /\ Payer.person \in Names(Payees)
            /\ Account("", Payer.account) \in Opt(AccountsBut(Payees))
            /\ None \in Names(Payees) /\ None \in Opt(AccountsBut(Payees))
        BY <1>3, PartyFields, Nameless DEF Fields, Opt
      <4> DEFINE originators == [name : Names(Payees), account : Opt(AccountsBut(Payees)),
                                 taxId : Names(Payees)]
      <4>2. [name |-> Payer.name, account |-> Account("", Payer.account),
             taxId |-> Payer.person] \in originators
        BY <4>1
      <4>3. [name |-> None, account |-> None, taxId |-> None] \in originators
        BY <4>1
      <4> HIDE DEF originators
      <4>4. m.originator \in originators
        BY <3>3, <4>2, <4>3
      <4> QED
        BY <4>4 DEF originators
    <3>5. m.account \in AccountsBut(Payers)
      BY <1>3, <3>1, <3>3 DEF Fields
    <3> QED
      BY <1>1, <3>2, <3>3, <3>4, <3>5, PartyFields DEF AchType, Fields
  <2> QED
    BY <1>8, <2>2 DEF ReadType
<1>9. CASE rail = "FEDNOW"
  <2>1. m \in FednowMessages
    BY <1>9 DEF Messages
  <2>2. m \in FednowType
    BY <1>1, <1>2, <1>3, <1>4, <2>1 DEF FednowMessages, FednowType, Fields
  <2> QED
    BY <1>9, <2>2 DEF ReadType
<1>10. CASE rail = "BRE_B"
  <2>1. m \in BrebMessages
    BY <1>10 DEF Messages
  <2>2. /\ BrebSides(Payer) \subseteq BrebSide(Payees)
        /\ BrebSides(Payee) \subseteq BrebSide(Payers)
    BY <1>1, <1>2, <1>3, PartyFields DEF BrebSides, BrebSide, Fields, Opt, Maybe
  <2>3. m \in BrebType
    BY <1>3, <1>4, <2>1, <2>2 DEF BrebMessages, BrebType, Fields
  <2> QED
    BY <1>10, <2>3 DEF ReadType
<1> QED
  BY <1>5, <1>6, <1>7, <1>8, <1>9, <1>10 DEF NativeRails, Rails

LEMMA NativeIsNoRequest ==
  ASSUME NEW rail \in NativeRails, NEW m \in ReadType(rail)
  PROVE  "creditor" \notin DOMAIN m
<1>1. CASE rail = "PIX"
  BY <1>1 DEF ReadType, PixType
<1>2. CASE rail = "SWIFT_MT103"
  BY <1>2 DEF ReadType, SwiftType
<1>3. CASE rail = "ISO20022_MX"
  BY <1>3 DEF ReadType, MxType
<1>4. CASE rail = "ACH_NACHA"
  BY <1>4 DEF ReadType, AchType
<1>5. CASE rail = "FEDNOW"
  BY <1>5 DEF ReadType, FednowType
<1>6. CASE rail = "BRE_B"
  BY <1>6 DEF ReadType, BrebType
<1> QED
  BY <1>1, <1>2, <1>3, <1>4, <1>5, <1>6 DEF NativeRails, Rails

Stages == {"idle", "received", "canonical", "normalized", "emitted", "rejected"}

(* What is at hand between two steps: the form of a payment, which is only *)
(* ever the first thing handed in; a message of the rail that reads it; a  *)
(* canonical; or what was written for the rail it goes to.                 *)
FlowInv ==
    /\ path \in Seq(Rails) /\ stage \in Stages
    /\ stage = "idle" <=> path = <<>>
    /\ stage = "received" =>
          \/ message \in RequestType /\ "creditor" \in DOMAIN message
             /\ Current \in ApiRails /\ Len(path) = 1
          \/ message \in ReadType(Current) /\ Current \in NativeRails
    /\ stage \in {"canonical", "normalized"} => canonical \in Canonicals
    /\ stage = "emitted" => message \in WrittenType(Current)

LEMMA FlowInitially == Init => FlowInv
BY DEF Init, FlowInv, Stages

LEMMA SubmitKeepsTypes ==
  ASSUME FlowInv, NEW r, NEW rail \in Rails, NEW m, Submit(r, rail, m),
         \/ m \in RequestType /\ "creditor" \in DOMAIN m /\ rail \in ApiRails
         \/ m \in ReadType(rail) /\ rail \in NativeRails
  PROVE  FlowInv'
<1>1. path' = <<rail>> /\ stage' = "received" /\ message' = m
  BY DEF Submit
<1>2. path' \in Seq(Rails) /\ path' # <<>> /\ Len(path') = 1 /\ Current' = rail
  BY <1>1 DEF Current
<1> QED
  BY <1>1, <1>2 DEF FlowInv, Stages

LEMMA AcceptKeepsTypes ==
  ASSUME FlowInv, stage = "received", NEW c \in Canonicals, Accept(c)
  PROVE  FlowInv'
<1>1. /\ path' = path /\ canonical' = c
      /\ stage' = "canonical" \/ stage' = "rejected"
  BY DEF Accept
<1> QED
  BY <1>1 DEF FlowInv, Stages

LEMMA FlowStep ==
  ASSUME FlowInv, [Next]_vars
  PROVE  FlowInv'
<1>1. ASSUME SubmitPayment PROVE FlowInv'
  <2>1. PICK req \in Requests("payments") :
           Submit("payments", inferRail(req.debtor.alias), req)
    BY <1>1 DEF SubmitPayment
  <2>2. inferRail(req.debtor.alias) \in ApiRails
    <3>1. req.debtor.alias.prefix \in {"PIX-", "SPEI-", "BREB-"}
      BY DEF Requests, Aliases, Account
    <3> QED
      BY <3>1 DEF inferRail, ApiRails
  <2> QED
    BY <2>1, <2>2, RequestsTyped, SubmitKeepsTypes DEF ApiRails, Rails
<1>2. ASSUME SubmitRequest PROVE FlowInv'
  BY <1>2, RequestsTyped, SubmitKeepsTypes DEF SubmitRequest, ApiRails, Rails
<1>3. ASSUME SubmitMessage PROVE FlowInv'
  BY <1>3, MessagesTyped, SubmitKeepsTypes DEF SubmitMessage, NativeRails
<1>4. ASSUME NEW mapping \in Mappings, ReadRequest(mapping) PROVE FlowInv'
  <2>1. /\ stage = "received" /\ "creditor" \in DOMAIN message
        /\ Accept(requestToCanonical(Current, message, mapping))
    BY <1>4 DEF ReadRequest, IsRequest
  <2>2. message \in RequestType /\ Current \in ApiRails
    BY <2>1, NativeIsNoRequest DEF FlowInv
  <2> QED
    BY <2>1, <2>2, RequestRead, AcceptKeepsTypes
<1>5. ASSUME MappingUnavailable PROVE FlowInv'
  BY <1>5 DEF MappingUnavailable, FlowInv, Stages
<1>6. ASSUME ReadMessage PROVE FlowInv'
  <2>1. /\ stage = "received" /\ "creditor" \notin DOMAIN message
        /\ Accept(toCanonical(Current, message))
    BY <1>6 DEF ReadMessage, IsRequest
  <2>2. message \in ReadType(Current) /\ Current \in NativeRails
    BY <2>1 DEF FlowInv
  <2> QED
    BY <2>1, <2>2, Read, AcceptKeepsTypes
<1>7. ASSUME Normalize PROVE FlowInv'
  <2>1. canonical \in Canonicals /\ canonical' = normalizeCurrency(canonical)
        /\ stage = "canonical" /\ stage' = "normalized" /\ path' = path
    BY <1>7 DEF Normalize, FlowInv
  <2>2. canonical' \in Canonicals
    BY <2>1, Normalized
  <2> QED
    BY <2>1, <2>2 DEF FlowInv, Stages
<1>8. ASSUME NEW rail \in Rails, Emit(rail) PROVE FlowInv'
  <2>1. /\ stage \in {"canonical", "normalized"} /\ stage' = "emitted"
        /\ message' = fromCanonical(rail, canonical) /\ path' = Append(path, rail)
    BY <1>8 DEF Emit
  <2>2. canonical \in Canonicals /\ path \in Seq(Rails)
    BY <2>1 DEF FlowInv
  <2>3. path' \in Seq(Rails) /\ path' # <<>> /\ Current' = rail
    BY <2>1, <2>2 DEF Current
  <2>4. message' \in WrittenType(rail)
    BY <2>1, <2>2, Written
  <2> QED
    BY <2>1, <2>3, <2>4 DEF FlowInv, Stages
<1>9. ASSUME HandIn PROVE FlowInv'
  <2>1. /\ stage = "emitted" /\ stage' = "received" /\ Current \notin {"PIX", "SPEI"}
        /\ path' = path /\ message' = message /\ Current' = Current
    BY <1>9 DEF HandIn, Current
  <2>2. message \in WrittenType(Current) /\ path \in Seq(Rails) /\ path # <<>>
    BY <2>1 DEF FlowInv
  <2>3. Current \in NativeRails
    BY <2>1, <2>2 DEF Current, NativeRails
  <2>4. message \in ReadType(Current)
    BY <2>1, <2>2 DEF WrittenType
  <2> QED
    BY <2>1, <2>2, <2>3, <2>4 DEF FlowInv, Stages
<1>10. CASE UNCHANGED vars
  BY <1>10 DEF vars, FlowInv, Current
<1> QED
  BY <1>1, <1>2, <1>3, <1>4, <1>5, <1>6, <1>7, <1>8, <1>9, <1>10 DEF Next

(* What is handed in, read, normalized, emitted and handed in again has the *)
(* form the next translator reads, with no party's identifiers on the      *)
(* other's side.                                                           *)
THEOREM TypesKept == Spec => []FlowInv
BY FlowInitially, FlowStep, PTL DEF Spec

LEMMA IdsOfOneParty ==
  ASSUME NEW S \in {Payers, Payees}, NEW accounts \in SUBSET Opt(AccountsBut(S))
  PROVE  IdsOf(accounts) \cap S = {}
BY DEF IdsOf, Opt, AccountsBut

LEMMA WrittenApart ==
  ASSUME NEW rail \in Rails, NEW m \in WrittenType(rail)
  PROVE  /\ CreditorIds(rail, m) \cap Payers = {}
         /\ DebtorIds(rail, m) \cap Payees = {}
<1> USE DEF CreditorIds, DebtorIds, WrittenType, ReadType
<1>1. CASE rail \in {"PIX", "SPEI"}
  <2>1. m \in AdapterType
    BY <1>1
  <2>2. /\ m.creditor.name \in Names(Payers) /\ m.debtor.name \in Names(Payees)
        /\ {m.key, m.creditor.account} \subseteq Opt(AccountsBut(Payers))
        /\ {m.debtor.account} \subseteq Opt(AccountsBut(Payees))
    BY <2>1 DEF AdapterType, Parties, Opt
  <2>3. /\ CreditorIds(rail, m) = {m.creditor.name} \cup IdsOf({m.key, m.creditor.account})
        /\ DebtorIds(rail, m) = {m.debtor.name} \cup IdsOf({m.debtor.account})
    BY <1>1
  <2> QED
    BY <2>2, <2>3, IdsOfOneParty DEF Names
<1>2. CASE rail = "SWIFT_MT103"
  <2>1. m \in SwiftType
    BY <1>2
  <2>2. /\ m.beneficiary.name \in Names(Payers) /\ m.ordering.name \in Names(Payees)
        /\ {m.beneficiary.iban, m.beneficiary.account} \subseteq Opt(AccountsBut(Payers))
        /\ {m.ordering.account} \subseteq Opt(AccountsBut(Payees))
    BY <2>1 DEF SwiftType
  <2>3. /\ CreditorIds(rail, m) = {m.beneficiary.name}
                                    \cup IdsOf({m.beneficiary.iban, m.beneficiary.account})
        /\ DebtorIds(rail, m) = {m.ordering.name} \cup IdsOf({m.ordering.account})
    BY <1>2
  <2> QED
    BY <2>2, <2>3, IdsOfOneParty DEF Names
<1>3. CASE rail = "ISO20022_MX"
  <2>1. m \in MxType
    BY <1>3
  <2>2. /\ m.Cdtr \in Names(Payers) /\ m.Dbtr \in Names(Payees)
        /\ {m.CdtrAcct.IBAN, m.CdtrAcct.Othr} \subseteq Opt(AccountsBut(Payers))
        /\ {m.DbtrAcct.IBAN, m.DbtrAcct.Othr} \subseteq Opt(AccountsBut(Payees))
    BY <2>1 DEF MxType, MxAccount
  <2>3. /\ CreditorIds(rail, m) = {m.Cdtr} \cup IdsOf({m.CdtrAcct.IBAN, m.CdtrAcct.Othr})
        /\ DebtorIds(rail, m) = {m.Dbtr} \cup IdsOf({m.DbtrAcct.IBAN, m.DbtrAcct.Othr})
    BY <1>3
  <2> QED
    BY <2>2, <2>3, IdsOfOneParty DEF Names
<1>4. CASE rail = "ACH_NACHA"
  <2>1. m \in AchType
    BY <1>4
  <2>2. /\ m.individualName \in Names(Payers) /\ m.companyName \in Names(Payees)
        /\ m.companyId \notin Payees /\ m.originator.name \in Names(Payees)
        /\ m.originator.taxId \in Names(Payees)
        /\ {m.account} \subseteq Opt(AccountsBut(Payers))
        /\ {m.originator.account} \subseteq Opt(AccountsBut(Payees))
    BY <2>1 DEF AchType, Opt
  <2>3. /\ CreditorIds(rail, m) = {m.individualName} \cup IdsOf({m.account})
        /\ DebtorIds(rail, m) = {m.companyName, m.companyId, m.originator.name,
                                 m.originator.taxId} \cup IdsOf({m.originator.account})
    BY <1>4
  <2> QED
    BY <2>2, <2>3, IdsOfOneParty DEF Names
<1>5. CASE rail = "FEDNOW"
  <2>1. m \in FednowType
    BY <1>5
  <2>2. /\ m.Cdtr \in Names(Payers) /\ m.Dbtr \in Names(Payees)
        /\ {m.CdtrAcct} \subseteq Opt(AccountsBut(Payers))
        /\ {m.DbtrAcct} \subseteq Opt(AccountsBut(Payees))
    BY <2>1 DEF FednowType, Opt
  <2>3. /\ CreditorIds(rail, m) = {m.Cdtr} \cup IdsOf({m.CdtrAcct})
        /\ DebtorIds(rail, m) = {m.Dbtr} \cup IdsOf({m.DbtrAcct})
    BY <1>5
  <2> QED
    BY <2>2, <2>3, IdsOfOneParty DEF Names
<1>6. CASE rail = "BRE_B"
  <2>1. m \in BrebType
    BY <1>6
  <2>2. /\ {m.beneficiario.nombre, m.beneficiario.nit, m.beneficiario.cc} \subseteq Names(Payers)
        /\ {m.pagador.nombre, m.pagador.nit, m.pagador.cc} \subseteq Names(Payees)
        /\ {m.llave, m.beneficiario.numeroCuenta} \subseteq Opt(AccountsBut(Payers))
        /\ {m.pagador.numeroCuenta} \subseteq Opt(AccountsBut(Payees))
    BY <2>1 DEF BrebType, BrebSide, Opt
  <2>3. /\ CreditorIds(rail, m) = {m.beneficiario.nombre, m.beneficiario.nit, m.beneficiario.cc}
                                    \cup IdsOf({m.llave, m.beneficiario.numeroCuenta})
        /\ DebtorIds(rail, m) = {m.pagador.nombre, m.pagador.nit, m.pagador.cc}
                                    \cup IdsOf({m.pagador.numeroCuenta})
    BY <1>6
  <2> QED
    BY <2>2, <2>3, IdsOfOneParty DEF Names
<1> QED
  BY <1>1, <1>2, <1>3, <1>4, <1>5, <1>6 DEF Rails

(* No writer puts what identifies the payer among the fields of the payee, *)
(* or the other way round, on any number of rails.                         *)
THEOREM PartiesApart == Spec => []PartiesStayApart
<1>1. FlowInv => PartiesStayApart
  <2> SUFFICES ASSUME FlowInv, stage = "emitted"
               PROVE  /\ CreditorIds(Current, message) \cap Payers = {}
                      /\ DebtorIds(Current, message) \cap Payees = {}
    BY DEF PartiesStayApart
  <2>1. Current \in Rails /\ message \in WrittenType(Current)
    BY DEF FlowInv, Current
  <2> QED
    BY <2>1, WrittenApart
<1> QED
  BY <1>1, TypesKept, PTL

(***************************************************************************)
(* What a payment came as, kept along its way                              *)
(***************************************************************************)

Way == stage # "idle"
AtHand == stage \in {"canonical", "normalized"}      \* a canonical is at hand
Onward == stage = "emitted" \/ (stage = "received" /\ Len(path) > 1)

FirstInv ==
    /\ Way => \/ /\ IsRequest(first) /\ first \in RequestType /\ Origin \in ApiRails
                 /\ IsFresh(first.creditor.alias)
                 /\ route = "payments" => first.currency # None
              \/ /\ ~IsRequest(first) /\ first \in Messages(Origin) /\ Origin \in NativeRails
                 /\ route # "payments"
    /\ stage = "received" /\ Len(path) = 1 => message = first
    /\ route = "payments" /\ stage \in {"received", "canonical", "normalized"} => Len(path) = 1
    /\ stage = "emitted" => Len(path) > 1
    /\ stage = "received" /\ Len(path) > 1 => Current # "PIX"

PathInv == FlowInv /\ FirstInv

LEMMA PathGrows ==
  ASSUME NEW p \in Seq(Rails), p # <<>>, NEW rail \in Rails
  PROVE  /\ Append(p, rail)[1] = p[1] /\ Len(Append(p, rail)) = Len(p) + 1
         /\ \A k \in 1 .. Len(p) : Append(p, rail)[k] = p[k]
         /\ Append(p, rail)[Len(p) + 1] = rail
         /\ Len(p) \in Nat /\ Len(p) >= 1
OBVIOUS

LEMMA PathLength ==
  ASSUME NEW p \in Seq(Rails), p # <<>>
  PROVE  Len(p) \in Nat /\ Len(p) >= 1
OBVIOUS

LEMMA SubmitKeepsFirst ==
  ASSUME NEW r, NEW rail \in Rails, NEW m, Submit(r, rail, m),
         \/ /\ m \in RequestType /\ "creditor" \in DOMAIN m /\ rail \in ApiRails
            /\ IsFresh(m.creditor.alias)
            /\ r = "payments" => m.currency # None
         \/ /\ m \in Messages(rail) /\ rail \in NativeRails /\ r # "payments"
  PROVE  FirstInv'
<1>1. /\ path' = <<rail>> /\ stage' = "received" /\ message' = m /\ first' = m /\ route' = r
      /\ Origin' = rail /\ Len(path') = 1
  BY DEF Submit, Origin
<1>2. m \in Messages(rail) /\ rail \in NativeRails => "creditor" \notin DOMAIN m
  BY MessagesTyped, NativeIsNoRequest
<1> QED
  BY <1>1, <1>2 DEF FirstInv, IsRequest

LEMMA FirstStep ==
  ASSUME PathInv, [Next]_vars
  PROVE  FirstInv'
<1> USE DEF PathInv
<1>1. ASSUME SubmitPayment PROVE FirstInv'
  <2>1. PICK req \in Requests("payments") :
           Submit("payments", inferRail(req.debtor.alias), req)
    BY <1>1 DEF SubmitPayment
  <2>2. inferRail(req.debtor.alias) \in ApiRails
    <3>1. req.debtor.alias.prefix \in {"PIX-", "SPEI-", "BREB-"}
      BY DEF Requests, Aliases, Account
    <3> QED
      BY <3>1 DEF inferRail, ApiRails
  <2>3. req.currency # None
    <3>1. req.currency \in {"BRL", "MXN", "EUR"} \cup {"USD"}
      BY DEF Requests
    <3> QED
      BY <3>1, UndefinedAssumption DEF Currencies
  <2> QED
    BY <2>1, <2>2, <2>3, RequestsTyped, SubmitKeepsFirst DEF ApiRails, Rails
<1>2. ASSUME SubmitRequest PROVE FirstInv'
  BY <1>2, RequestsTyped, SubmitKeepsFirst DEF SubmitRequest, ApiRails, Rails
<1>3. ASSUME SubmitMessage PROVE FirstInv'
  BY <1>3, SubmitKeepsFirst DEF SubmitMessage, NativeRails
<1>4. ASSUME NEW c, stage = "received", Accept(c) PROVE FirstInv'
  BY <1>4 DEF Accept, FirstInv, Origin, Way, Current
<1>5. ASSUME NEW mapping \in Mappings, ReadRequest(mapping) PROVE FirstInv'
  BY <1>4, <1>5 DEF ReadRequest
<1>6. ASSUME MappingUnavailable PROVE FirstInv'
  BY <1>6 DEF MappingUnavailable, FirstInv, Origin, Way, Current
<1>7. ASSUME ReadMessage PROVE FirstInv'
  BY <1>4, <1>7 DEF ReadMessage
<1>8. ASSUME Normalize PROVE FirstInv'
  BY <1>8 DEF Normalize, FirstInv, Origin, Way, Current
<1>9. ASSUME NEW rail \in Rails, Emit(rail) PROVE FirstInv'
  <2>1. /\ AtHand /\ stage' = "emitted" /\ path' = Append(path, rail)
        /\ UNCHANGED <<route, first>>
    BY <1>9 DEF Emit, AtHand
  <2>2. Origin' = Origin /\ Len(path') > 1
    BY <2>1, PathGrows DEF FlowInv, AtHand, Origin
  <2> QED
    BY <2>1, <2>2 DEF FirstInv, AtHand, Way, IsRequest
<1>10. ASSUME HandIn PROVE FirstInv'
  <2>1. Len(path) \in Nat
    BY DEF FlowInv
  <2> QED
    BY <1>10, <2>1 DEF HandIn, FirstInv, Origin, Way, IsRequest, Current
<1>11. CASE UNCHANGED vars
  BY <1>11 DEF vars, FirstInv, Origin, Way, Current
<1> QED
  BY <1>1, <1>2, <1>3, <1>5, <1>6, <1>7, <1>8, <1>9, <1>10, <1>11 DEF Next

(* POST /payments and POST /translate keep hold of what a payment came as: *)
(* its form or its rail's own message, until the first translation.        *)
THEOREM PathKept == Spec => []PathInv
<1>1. Init => PathInv
  BY FlowInitially DEF Init, PathInv, FirstInv, Way
<1>2. PathInv /\ [Next]_vars => PathInv'
  BY FlowStep, FirstStep DEF PathInv
<1> QED
  BY <1>1, <1>2, PTL DEF Spec

(***************************************************************************)
(* Amounts                                                                 *)
(***************************************************************************)

LEMMA AmountRead ==
  ASSUME NEW rail \in NativeRails, NEW m \in ReadType(rail),
         NEW c, c = toCanonical(rail, m)
  PROVE  /\ c.value = IF rail = "PIX" THEN m.valor ?? 0 ELSE AmountOf(rail, m)
         /\ rail # "ISO20022_MX" => c.fx = NoFx /\ c.instd = None
         /\ rail = "ISO20022_MX" => /\ c.ccy = m.Ccy /\ c.instd = m.InstdAmt
                                    /\ c.fx.local \in {None, m.InstdAmt}
                                    /\ m.XchgRate = None => c.fx = NoFx
<1>0. /\ iso20022MxToCanonical(m).value = m.IntrBkSttlmAmt
      /\ iso20022MxToCanonical(m).ccy = m.Ccy
      /\ iso20022MxToCanonical(m).instd = m.InstdAmt
      /\ iso20022MxToCanonical(m).fx =
            IF m.XchgRate = None THEN NoFx ELSE [rate |-> m.XchgRate, local |-> m.InstdAmt]
  BY DEF iso20022MxToCanonical
<1> USE DEF toCanonical, AmountOf
<1>1. CASE rail = "PIX"
  BY <1>1 DEF pixToCanonical
<1>2. CASE rail = "SWIFT_MT103"
  BY <1>2 DEF swiftMt103ToCanonical
<1>3. CASE rail = "ISO20022_MX"
  <2>1. c = iso20022MxToCanonical(m)
    BY <1>3
  <2> QED
    BY <1>0, <1>3, <2>1 DEF NoFx
<1>4. CASE rail = "ACH_NACHA"
  BY <1>4 DEF achNachaToCanonical
<1>5. CASE rail = "FEDNOW"
  BY <1>5 DEF fednowToCanonical
<1>6. CASE rail = "BRE_B"
  BY <1>6 DEF brebToCanonical
<1> QED
  BY <1>1, <1>2, <1>3, <1>4, <1>5, <1>6 DEF NativeRails, Rails

LEMMA AmountRequested ==
  ASSUME NEW rail \in ApiRails, NEW req \in RequestType, NEW mapping, NEW c,
         c = requestToCanonical(rail, req, mapping)
  PROVE  /\ c.value = req.amount /\ c.fx = NoFx /\ c.instd = None
         /\ req.currency # None => c.ccy = req.currency
<1> USE DEF requestToCanonical, ??
<1>1. CASE rail = "PIX"
  BY <1>1 DEF pixRequestToCanonical
<1>2. CASE rail = "SPEI"
  BY <1>2 DEF speiToCanonical
<1>3. CASE rail = "BRE_B"
  BY <1>3 DEF brebRequestToCanonical
<1> QED
  BY <1>1, <1>2, <1>3 DEF ApiRails

LEMMA AmountWritten ==
  ASSUME NEW rail \in Rails, NEW c \in Canonicals, NEW m, m = fromCanonical(rail, c)
  PROVE  /\ rail # "FEDNOW" \/ c.ccy = "USD" \/ c.fx = NoFx =>
               AmountOf(rail, m) \in {c.value, Cents(c.value)}
         /\ rail = "ISO20022_MX" => /\ m.Ccy = c.ccy /\ m.XchgRate = c.fx.rate
                                    /\ m.InstdAmt = InstdAmt(c)
<1> USE DEF fromCanonical, AmountOf
<1>1. CASE rail \in {"PIX", "SPEI"}
  BY <1>1 DEF canonicalToPix, canonicalToSpei
<1>2. CASE rail = "SWIFT_MT103"
  BY <1>2 DEF canonicalToSwiftMt103
<1>3. CASE rail = "ISO20022_MX"
  BY <1>3 DEF canonicalToIso20022Mx
<1>4. CASE rail = "ACH_NACHA"
  BY <1>4 DEF canonicalToAchNacha
<1>5. CASE rail = "FEDNOW"
  <2>1. AmountOf(rail, m) = Cents(amountUsd(c))
    BY <1>5 DEF canonicalToFednow
  <2>2. c.ccy = "USD" \/ c.fx = NoFx => amountUsd(c) = c.value
    BY DEF amountUsd, NoFx
  <2> QED
    BY <1>5, <2>1, <2>2
<1>6. CASE rail = "BRE_B"
  BY <1>6 DEF canonicalToBreb
<1> QED
  BY <1>1, <1>2, <1>3, <1>4, <1>5, <1>6 DEF Rails

(* To round a rounded amount changes nothing.                              *)
LEMMA CentsTwice ==
  ASSUME NEW v \in Nat
  PROVE  /\ Cents(Cents(v)) = Cents(v)
         /\ Cents(v) <= v + 5 /\ v <= Cents(v) + 5
BY DEF Cents

LEMMA CentsOfCents == Cents(2000) = 2000
BY DEF Cents

Rounded(v) == v \in {FirstAmount, Cents(FirstAmount)}

Unconverted == ~(Passed("FEDNOW") /\ MayBeConverted)

AmountInv ==
    /\ AtHand \/ Onward => FirstAmount \in Nat
    /\ Unconverted =>
          /\ AtHand => Rounded(canonical.value)
          /\ Onward => Rounded(AmountOf(Current, message))
    /\ ~MayBeConverted =>
          /\ AtHand => canonical.ccy = "USD" \/ (canonical.fx = NoFx /\ route # "payments")
          /\ Onward /\ Current = "ISO20022_MX" =>
                message.Ccy = "USD" \/ message.XchgRate = None

(* Of what its reader can refuse an amount of MX only carries 2000.        *)
InstructedInv ==
    /\ AtHand => canonical.instd \in {None, 2000}
    /\ Onward /\ Current = "ISO20022_MX" => message.InstdAmt \in {None, 2000}
    /\ stage = "rejected" /\ Len(path) > 1 => canonical.value = 0

MoneyInv == PathInv /\ AmountInv /\ InstructedInv

LEMMA AcceptKeepsMoney ==
  ASSUME MoneyInv, stage = "received", NEW c \in Canonicals, Accept(c),
         Valid(c) => FirstAmount \in Nat /\ c.instd \in {None, 2000},
         Valid(c) /\ Unconverted => Rounded(c.value),
         Valid(c) /\ ~MayBeConverted =>
            c.ccy = "USD" \/ (c.fx = NoFx /\ route # "payments"),
         Len(path) > 1 => c.instd \in {None, 2000} /\ c.fx.local \in {None, 2000}
  PROVE  AmountInv' /\ InstructedInv'
<1>1. /\ UNCHANGED <<route, path, first>> /\ canonical' = c
      /\ stage' = IF Valid(c) THEN "canonical" ELSE "rejected"
  BY DEF Accept
<1>2. /\ FirstAmount' = FirstAmount /\ (MayBeConverted <=> MayBeConverted')
      /\ (Unconverted <=> Unconverted') /\ (\A v : Rounded(v) <=> Rounded(v)')
  BY <1>1 DEF FirstAmount, MayBeConverted, Unconverted, Rounded, Passed, Origin, IsRequest
<1>3. AmountInv'
  BY <1>1, <1>2 DEF AmountInv, AtHand, Onward
<1>4. ~Valid(c) /\ Len(path) > 1 => c.value = 0
  BY CanonicalParts DEF Valid
<1>5. InstructedInv'
  BY <1>1, <1>4 DEF InstructedInv, AtHand, Onward
<1> QED
  BY <1>3, <1>5

LEMMA MoneyStep ==
  ASSUME MoneyInv, [Next]_vars
  PROVE  AmountInv' /\ InstructedInv'
<1> USE DEF MoneyInv, PathInv
<1>1. ASSUME NEW r, NEW rail, NEW m, Submit(r, rail, m) PROVE AmountInv' /\ InstructedInv'
  BY <1>1 DEF Submit, AmountInv, InstructedInv, AtHand, Onward
<1>2. ASSUME SubmitPayment \/ SubmitRequest \/ SubmitMessage PROVE AmountInv' /\ InstructedInv'
  BY <1>1, <1>2 DEF SubmitPayment, SubmitRequest, SubmitMessage
<1>3. ASSUME NEW mapping \in Mappings, ReadRequest(mapping) PROVE AmountInv' /\ InstructedInv'
  <2> DEFINE c == requestToCanonical(Current, message, mapping)
  <2>1. stage = "received" /\ "creditor" \in DOMAIN message /\ Accept(c)
    BY <1>3 DEF ReadRequest, IsRequest
  <2>2. message \in RequestType /\ Current \in ApiRails /\ Len(path) = 1
    BY <2>1, NativeIsNoRequest DEF FlowInv
  <2>3. /\ message = first /\ IsRequest(first) /\ first \in RequestType
        /\ route = "payments" => first.currency # None
    BY <2>1, <2>2 DEF FirstInv, Way, IsRequest
  <2>4. /\ c.value = FirstAmount /\ c.fx = NoFx /\ c.instd = None
        /\ first.currency # None => c.ccy = first.currency
    BY <2>2, <2>3, AmountRequested DEF FirstAmount
  <2>5. FirstAmount \in Nat
    BY <2>3 DEF FirstAmount, RequestType
  <2>6. c \in Canonicals
    BY <2>2, RequestRead
  <2>7. ~MayBeConverted => c.ccy = "USD" \/ (c.fx = NoFx /\ route # "payments")
    BY <2>3, <2>4 DEF MayBeConverted
  <2> HIDE DEF c
  <2> QED
    BY <2>1, <2>2, <2>4, <2>5, <2>6, <2>7, AcceptKeepsMoney DEF Rounded
<1>4. ASSUME MappingUnavailable PROVE AmountInv' /\ InstructedInv'
  <2>1. Len(path) = 1
    BY <1>4, NativeIsNoRequest DEF MappingUnavailable, IsRequest, FlowInv
  <2> QED
    BY <1>4, <2>1 DEF MappingUnavailable, AmountInv, InstructedInv, AtHand, Onward
<1>5. ASSUME ReadMessage PROVE AmountInv' /\ InstructedInv'
  <2> DEFINE c == toCanonical(Current, message)
  <2>1. stage = "received" /\ "creditor" \notin DOMAIN message /\ Accept(c)
    BY <1>5 DEF ReadMessage, IsRequest
  <2>2. message \in ReadType(Current) /\ Current \in NativeRails /\ path # <<>>
    BY <2>1 DEF FlowInv
  <2>3. c \in Canonicals
    BY <2>2, Read
  <2>4. /\ c.value = IF Current = "PIX" THEN message.valor ?? 0 ELSE AmountOf(Current, message)
        /\ Current # "ISO20022_MX" => c.fx = NoFx /\ c.instd = None
        /\ Current = "ISO20022_MX" => /\ c.ccy = message.Ccy /\ c.instd = message.InstdAmt
                                      /\ c.fx.local \in {None, message.InstdAmt}
                                      /\ message.XchgRate = None => c.fx = NoFx
    BY <2>2, AmountRead
  <2> HIDE DEF c
  <2>5. CASE Len(path) = 1
    <3>1. /\ message = first /\ ~IsRequest(first) /\ Origin = Current
          /\ route # "payments" /\ first \in Messages(Origin)
      BY <2>1, <2>5 DEF FirstInv, Way, IsRequest, Origin, Current
    <3>2. Valid(c) => c.value > 0 /\ c.value \in Nat
      BY <2>3, CanonicalParts DEF Valid
    <3>3. Valid(c) => c.value = FirstAmount
      <4>1. CASE Current = "PIX"
        BY <2>4, <3>1, <3>2, <4>1 DEF FirstAmount, ??
      <4>2. CASE Current # "PIX"
        BY <2>4, <3>1, <4>2 DEF FirstAmount
      <4> QED
        BY <4>1, <4>2
    <3>4. Valid(c) => c.instd \in {None, 2000}
      <4>1. CASE Current = "ISO20022_MX"
        <5>1. message \in MxMessages
          BY <3>1, <4>1 DEF Messages
        <5>2. message.InstdAmt = None \/ message.InstdAmt = 0 \/ message.InstdAmt = 2000
          BY <5>1 DEF MxMessages
        <5>3. Valid(c) => c.instd = None \/ c.instd > 0
          BY DEF Valid
        <5> QED
          BY <2>4, <4>1, <5>2, <5>3
      <4> QED
        BY <2>4, <4>1
    <3>5. ~MayBeConverted => c.ccy = "USD" \/ (c.fx = NoFx /\ route # "payments")
      BY <2>4, <3>1 DEF MayBeConverted
    <3> QED
      BY <2>1, <2>3, <2>5, <3>1, <3>2, <3>3, <3>4, <3>5, AcceptKeepsMoney DEF Rounded
  <2>6. CASE Len(path) # 1
    <3>1. Len(path) \in Nat /\ Len(path) > 1 /\ Onward
      <4>1. path \in Seq(Rails) /\ path # <<>>
        BY <2>2 DEF FlowInv
      <4>2. Len(path) \in Nat /\ Len(path) >= 1
        BY <4>1, PathLength
      <4>3. \A n \in Nat : n >= 1 /\ n # 1 => n > 1
        OBVIOUS
      <4>4. Len(path) > 1
        BY <2>6, <4>2, <4>3
      <4> QED
        BY <2>1, <4>2, <4>4 DEF Onward
    <3>2. Current # "PIX"
      BY <2>1, <3>1 DEF FirstInv
    <3>3. FirstAmount \in Nat /\ (Unconverted => Rounded(c.value))
      BY <2>4, <3>1, <3>2 DEF AmountInv
    <3>4. c.instd \in {None, 2000} /\ c.fx.local \in {None, 2000}
      BY <2>4, <3>1 DEF InstructedInv, NoFx
    <3>5. route # "payments"
      BY <2>1, <2>6 DEF FirstInv
    <3>6. ~MayBeConverted => c.ccy = "USD" \/ c.fx = NoFx
      BY <2>4, <3>1 DEF AmountInv
    <3> QED
      BY <2>1, <2>3, <3>3, <3>4, <3>5, <3>6, AcceptKeepsMoney
  <2> QED
    BY <2>5, <2>6
<1>6. ASSUME Normalize PROVE AmountInv' /\ InstructedInv'
  <2>1. /\ stage = "canonical" /\ stage' = "normalized" /\ route = "payments"
        /\ canonical' = normalizeCurrency(canonical)
        /\ UNCHANGED <<route, path, first, message>> /\ canonical \in Canonicals
    BY <1>6 DEF Normalize, FlowInv
  <2>2. /\ canonical'.value = canonical.value /\ canonical'.ccy = canonical.ccy
        /\ canonical'.instd = canonical.instd
    BY <2>1 DEF normalizeCurrency, Canonicals
  <2>3. /\ FirstAmount' = FirstAmount /\ (MayBeConverted <=> MayBeConverted')
        /\ (Unconverted <=> Unconverted') /\ (\A v : Rounded(v) <=> Rounded(v)')
    BY <2>1 DEF FirstAmount, MayBeConverted, Unconverted, Rounded, Passed, Origin, IsRequest
  <2>4. AmountInv'
    BY <2>1, <2>2, <2>3 DEF AmountInv, AtHand, Onward
  <2> QED
    BY <2>1, <2>2, <2>4 DEF InstructedInv, AtHand, Onward
<1>7. ASSUME NEW rail \in Rails, Emit(rail) PROVE AmountInv' /\ InstructedInv'
  <2> DEFINE c == canonical
  <2>1. /\ AtHand /\ stage' = "emitted" /\ path' = Append(path, rail) /\ first' = first
        /\ message' = fromCanonical(rail, c) /\ c \in Canonicals
        /\ path \in Seq(Rails) /\ path # <<>>
    BY <1>7 DEF Emit, AtHand, FlowInv
  <2>2. Origin' = Origin /\ Current' = rail
    BY <2>1, PathGrows DEF Origin, Current
  <2>3. Unconverted' => Unconverted /\ (rail = "FEDNOW" => ~MayBeConverted)
    <3>1. MayBeConverted' <=> MayBeConverted
      BY <2>1, <2>2 DEF MayBeConverted, IsRequest
    <3>2. Passed("FEDNOW") => Passed("FEDNOW")'
      BY <2>1, PathGrows DEF Passed
    <3>3. rail = "FEDNOW" => Passed("FEDNOW")'
      <4>1. Len(path') \in 2 .. Len(path') /\ path'[Len(path')] = rail
        BY <2>1, PathGrows
      <4> QED
        BY <4>1 DEF Passed
    <3> QED
      BY <3>1, <3>2, <3>3 DEF Unconverted
  <2>4. /\ FirstAmount' = FirstAmount /\ (MayBeConverted <=> MayBeConverted')
        /\ \A v : Rounded(v) <=> Rounded(v)'
    BY <2>1, <2>2 DEF FirstAmount, MayBeConverted, Rounded, IsRequest
  <2>5. FirstAmount \in Nat /\ (Unconverted => Rounded(c.value))
        /\ (~MayBeConverted => c.ccy = "USD" \/ c.fx = NoFx)
    BY <2>1 DEF AmountInv
  <2>6. /\ rail # "FEDNOW" \/ c.ccy = "USD" \/ c.fx = NoFx =>
               AmountOf(rail, message') \in {c.value, Cents(c.value)}
        /\ rail = "ISO20022_MX" => /\ message'.Ccy = c.ccy /\ message'.XchgRate = c.fx.rate
                                   /\ message'.InstdAmt = InstdAmt(c)
    BY <2>1, AmountWritten
  <2>7. Unconverted' => Rounded(AmountOf(rail, message'))
    BY <2>3, <2>5, <2>6, CentsTwice DEF Rounded
  <2>8. AmountOf(Current, message)' = AmountOf(rail, message')
    BY <2>2 DEF AmountOf
  <2>9. AmountInv'
    BY <2>1, <2>2, <2>4, <2>5, <2>6, <2>7, <2>8 DEF AmountInv, AtHand, Onward, NoFx
  <2>10. InstdAmt(c) \in {None, 2000}
    BY <2>1, CentsOfCents DEF InstructedInv, InstdAmt
  <2>11. InstructedInv'
    BY <2>1, <2>2, <2>6, <2>10 DEF InstructedInv, AtHand
  <2> QED
    BY <2>9, <2>11
<1>8. ASSUME HandIn PROVE AmountInv' /\ InstructedInv'
  <2>1. /\ stage = "emitted" /\ stage' = "received" /\ UNCHANGED <<path, first, message, canonical>>
    BY <1>8 DEF HandIn
  <2>2. /\ FirstAmount' = FirstAmount /\ (MayBeConverted <=> MayBeConverted')
        /\ (Unconverted <=> Unconverted') /\ (\A v : Rounded(v) <=> Rounded(v)')
        /\ Current' = Current /\ AmountOf(Current, message)' = AmountOf(Current, message)
    BY <2>1 DEF FirstAmount, MayBeConverted, Unconverted, Rounded, Passed, Origin, IsRequest,
                Current, AmountOf
  <2> QED
    BY <2>1, <2>2 DEF AmountInv, InstructedInv, AtHand, Onward
<1>9. CASE UNCHANGED vars
  <2>1. /\ FirstAmount' = FirstAmount /\ (MayBeConverted <=> MayBeConverted')
        /\ (Unconverted <=> Unconverted') /\ (\A v : Rounded(v) <=> Rounded(v)')
        /\ Current' = Current /\ AmountOf(Current, message)' = AmountOf(Current, message)
    BY <1>9 DEF vars, FirstAmount, MayBeConverted, Unconverted, Rounded, Passed, Origin,
                IsRequest, Current, AmountOf
  <2> QED
    BY <1>9, <2>1 DEF vars, AmountInv, InstructedInv, AtHand, Onward
<1> QED
  BY <1>2, <1>3, <1>4, <1>5, <1>6, <1>7, <1>8, <1>9 DEF Next

LEMMA MoneyKept == Spec => []MoneyInv
<1>1. Init => MoneyInv
  BY FlowInitially DEF Init, MoneyInv, PathInv, FirstInv, Way, AmountInv, InstructedInv,
                       AtHand, Onward
<1>2. MoneyInv /\ [Next]_vars => MoneyInv'
  BY FlowStep, FirstStep, MoneyStep DEF MoneyInv, PathInv
<1> QED
  BY <1>1, <1>2, PTL DEF Spec

(* Along any chain of rails Math.round and toFixed leave the amount within *)
(* half a cent of what was handed in.                                      *)
THEOREM AmountsKept == Spec => []AmountIsKept
<1>1. MoneyInv => AmountIsKept
  <2> SUFFICES ASSUME MoneyInv, stage = "emitted", Unconverted
               PROVE  /\ AmountOf(Current, message) <= FirstAmount + 5
                      /\ FirstAmount <= AmountOf(Current, message) + 5
    BY DEF AmountIsKept, Unconverted
  <2>1. FirstAmount \in Nat /\ Rounded(AmountOf(Current, message))
    BY DEF MoneyInv, AmountInv, Onward
  <2> QED
    BY <2>1, CentsTwice DEF Rounded
<1> QED
  BY <1>1, MoneyKept, PTL

(* canonicalPacs008Schema refuses a message that a writer has made only for *)
(* an amount that was rounded to nothing.                                  *)
THEOREM OwnMessagesRead == Spec => []OwnMessagesAreRead
<1>1. MoneyInv => OwnMessagesAreRead
  BY DEF MoneyInv, InstructedInv, OwnMessagesAreRead
<1> QED
  BY <1>1, MoneyKept, PTL

(***************************************************************************)
(* The payee                                                               *)
(***************************************************************************)

(* The payee's accounts and tax identifier are where a translator may look *)
(* for whom to pay.                                                        *)
PayeeKnown(c) ==
    /\ c.alias.value.id \in Payees /\ c.creditor.account.id \in Payees
    /\ c.creditor.taxId \in Opt(Payees)

NamedIn(rail, m) ==
    CASE rail = "PIX" -> m.chave \in Payees /\ m.recebedor.cpf \in Opt(Payees)
      [] rail = "SWIFT_MT103" -> creditorAccount(m.beneficiary).id \in Payees
      [] rail = "ISO20022_MX" -> /\ m.CdtrAcct.IBAN # None \/ m.CdtrAcct.Othr # None
                                 /\ Credited(rail, m).id \in Payees
      [] rail = "ACH_NACHA" -> m.account.id \in Payees
      [] rail = "FEDNOW" -> m.CdtrAcct.id \in Payees
      [] rail = "BRE_B" -> /\ m.llave.id \in Payees
                           /\ m.beneficiario.nit \in Opt(Payees)
                           /\ m.beneficiario.cc \in Opt(Payees)
                           /\ \/ m.beneficiario.numeroCuenta = None
                              \/ m.beneficiario.numeroCuenta.id \in Payees

(* If the payee is named in what is read, he is known in the canonical, ... *)
LEMMA NamedRead ==
  ASSUME NEW rail \in NativeRails, NEW m \in ReadType(rail), NamedIn(rail, m)
  PROVE  PayeeKnown(toCanonical(rail, m))
<1>1. CASE rail = "PIX"
  <2>1. m.chave \in Payees /\ m.recebedor.cpf \in Opt(Payees) /\ m.chave # None
    BY <1>1, FlowAssumption, UndefinedAssumption DEF NamedIn
  <2>2. toCanonical(rail, m).alias.value = Account("", m.chave)
    BY <1>1, <2>1 DEF toCanonical, pixToCanonical, ??
  <2>3. /\ toCanonical(rail, m).creditor.account = Account("PIX-", m.chave)
        /\ toCanonical(rail, m).creditor.taxId = m.recebedor.cpf
    BY <1>1, <2>1 DEF toCanonical, pixToCanonical, ??, Party
  <2>4. Account("PIX-", m.chave).id = m.chave /\ Account("", m.chave).id = m.chave
    BY DEF Account
  <2> QED
    BY <2>1, <2>2, <2>3, <2>4 DEF PayeeKnown
<1>2. CASE rail = "SWIFT_MT103"
  <2>1. creditorAccount(m.beneficiary).id \in Payees
    BY <1>2 DEF NamedIn
  <2>2. /\ toCanonical(rail, m).alias.value = creditorAccount(m.beneficiary)
        /\ toCanonical(rail, m).creditor = Party(m.beneficiary.name,
                                                 creditorAccount(m.beneficiary), None)
    BY <1>2 DEF toCanonical, swiftMt103ToCanonical
  <2> QED
    BY <2>1, <2>2 DEF PayeeKnown, Party, Opt
<1>3. CASE rail = "ISO20022_MX"
  <2> DEFINE payee == m.CdtrAcct.IBAN ?? (m.CdtrAcct.Othr ?? Unknown)
  <2>1. payee.id \in Payees
    BY <1>3 DEF NamedIn, Credited, ??
  <2>2. /\ toCanonical(rail, m).alias.value = payee
        /\ toCanonical(rail, m).creditor = Party(m.Cdtr, payee, None)
    BY <1>3 DEF toCanonical, iso20022MxToCanonical
  <2>3. /\ toCanonical(rail, m).creditor.account = payee
        /\ toCanonical(rail, m).creditor.taxId = None
    BY <2>2 DEF Party
  <2> HIDE DEF payee
  <2> QED
    BY <2>1, <2>2, <2>3 DEF PayeeKnown, Opt
<1>4. CASE rail = "ACH_NACHA"
  <2>1. m.account.id \in Payees /\ m.account \in AccountsBut(Payers) /\ m.routingTransit \in Banks
    BY <1>4 DEF NamedIn, ReadType, AchType
  <2>2. /\ toCanonical(rail, m).alias.value = At(m.routingTransit, m.account)
        /\ toCanonical(rail, m).creditor = Party(m.individualName, m.account, None)
    BY <1>4 DEF toCanonical, achNachaToCanonical
  <2>3. /\ toCanonical(rail, m).creditor.account = m.account
        /\ toCanonical(rail, m).creditor.taxId = None
    BY <2>2 DEF Party
  <2>4. At(m.routingTransit, m.account).id \in Payees
    BY <2>1, BankPutInFront
  <2> QED
    BY <2>1, <2>2, <2>3, <2>4 DEF PayeeKnown, Opt
<1>5. CASE rail = "FEDNOW"
  <2>1. m.CdtrAcct.id \in Payees /\ m.CdtrAcct \in AccountsBut(Payers) /\ m.CdtrAgt \in Banks
    BY <1>5 DEF NamedIn, ReadType, FednowType
  <2>2. /\ toCanonical(rail, m).alias.value = At(m.CdtrAgt, m.CdtrAcct)
        /\ toCanonical(rail, m).creditor = Party(m.Cdtr, At(m.CdtrAgt, m.CdtrAcct), None)
    BY <1>5 DEF toCanonical, fednowToCanonical
  <2>3. /\ toCanonical(rail, m).creditor.account = At(m.CdtrAgt, m.CdtrAcct)
        /\ toCanonical(rail, m).creditor.taxId = None
    BY <2>2 DEF Party
  <2>4. At(m.CdtrAgt, m.CdtrAcct).id \in Payees
    BY <2>1, BankPutInFront
  <2> QED
    BY <2>2, <2>3, <2>4 DEF PayeeKnown, Opt
<1>6. CASE rail = "BRE_B"
  <2> DEFINE p == m.beneficiario
             id == IF p.nit # None THEN Account("", p.nit)
                   ELSE IF p.cc # None THEN Account("", p.cc) ELSE p.numeroCuenta
  <2>1. /\ m.llave.id \in Payees /\ p.nit \in Opt(Payees) /\ p.cc \in Opt(Payees)
        /\ p.numeroCuenta = None \/ p.numeroCuenta.id \in Payees
    BY <1>6 DEF NamedIn
  <2>2. /\ p \in BrebSide(Payers) /\ m.llave \in AccountsBut(Payers)
    BY <1>6 DEF ReadType, BrebType
  <2>3. /\ p.nit \in Names(Payers) /\ p.cc \in Names(Payers) /\ p.codigoEntidad \in Banks
        /\ p.numeroCuenta \in Opt(AccountsBut(Payers))
    BY <2>2 DEF BrebSide
  <2>4. (id ?? m.llave).id \in Payees
    BY <2>1 DEF Account, ??, Opt
  <2>5. (id ?? m.llave) \in AccountsBut(Payers)
    BY <2>2, <2>3, NameOfAccount DEF ??, Opt, Prefixes
  <2>6. /\ toCanonical(rail, m).alias.value = m.llave
        /\ toCanonical(rail, m).creditor =
              Party(p.nombre, At(p.codigoEntidad, id ?? m.llave), p.nit ?? p.cc)
    BY <1>6 DEF toCanonical, brebToCanonical
  <2>7. (p.nit ?? p.cc) \in Opt(Payees)
    BY <2>1 DEF ??
  <2> HIDE DEF id
  <2>8. At(p.codigoEntidad, id ?? m.llave).id \in Payees
    BY <2>3, <2>4, <2>5, BankPutInFront
  <2> QED
    BY <2>1, <2>6, <2>7, <2>8 DEF PayeeKnown, Party
<1> QED
  BY <1>1, <1>2, <1>3, <1>4, <1>5, <1>6 DEF NativeRails, Rails

LEMMA NamedRequest ==
  ASSUME NEW rail \in ApiRails, NEW req \in RequestType, NEW mapping \in Mappings,
         req.creditor.alias.id \in Payees
  PROVE  PayeeKnown(requestToCanonical(rail, req, mapping))
<1> DEFINE alias == req.creditor.alias
<1>1. alias \in AccountsBut(Payers)
  BY DEF RequestType
<1>2. \A p : Strip(alias, p).id \in Payees
  BY <1>1, PartsKept
<1>3. applyTransformation(alias, mapping).id \in Payees
  <2>1. \/ applyTransformation(alias, mapping) = Strip(alias, {"PIX-"})
        \/ applyTransformation(alias, mapping) = Strip(alias, {"CLABE-"})
        \/ applyTransformation(alias, mapping) = alias
    <3>1. CASE mapping = "strip_pix_prefix"
      BY <3>1 DEF applyTransformation
    <3>2. CASE mapping = "strip_clabe_prefix"
      BY <3>2 DEF applyTransformation
    <3>3. CASE mapping \notin {"strip_pix_prefix", "strip_clabe_prefix"}
      BY <3>3 DEF applyTransformation
    <3> QED
      BY <3>1, <3>2, <3>3
  <2> QED
    BY <1>2, <2>1
<1>4. CASE rail = "PIX"
  BY <1>2, <1>3, <1>4 DEF requestToCanonical, pixRequestToCanonical, PayeeKnown, Party, Opt
<1>5. CASE rail = "SPEI"
  BY <1>2, <1>3, <1>5 DEF requestToCanonical, speiToCanonical, PayeeKnown, Party, Opt
<1>6. CASE rail = "BRE_B"
  BY <1>2, <1>6 DEF requestToCanonical, brebRequestToCanonical, PayeeKnown, Party, Opt
<1> QED
  BY <1>4, <1>5, <1>6 DEF ApiRails

LEMMA RoutingKeepsPayee ==
  ASSUME NEW alias \in AccountsBut(Payers), NEW fallback \in AccountsBut(Payers), NEW bank,
         alias.id \in Payees, fallback.id \in Payees
  PROVE  /\ parseAbaAlias(alias, fallback).account.id \in Payees
         /\ extractRtnAndAccount(alias, bank, fallback).account.id \in Payees
<1>1. /\ HasAba(alias) => Behind(alias) \in AccountsBut(Payers) /\ Behind(alias).id \in Payees
      /\ Strip(fallback, {"PIX-", "SPEI-"}).id \in Payees
  BY BankTakenOff, PartsKept DEF HasAba
<1>2. HasAba(alias) => Strip(Behind(alias), {"PIX-", "SPEI-"}).id \in Payees
  BY <1>1, PartsKept
<1> QED
  BY <1>1, <1>2 DEF parseAbaAlias, extractRtnAndAccount

(* ... and if he is known there, he is named and credited in what is written. *)
LEMMA NamedWritten ==
  ASSUME NEW rail \in Rails, NEW c \in Canonicals, PayeeKnown(c),
         NEW m, m = fromCanonical(rail, c)
  PROVE  /\ rail \notin {"PIX", "SPEI"} => NamedIn(rail, m)
         /\ Credited(rail, m).id \in Payees
<1>1. /\ c.alias.value \in AccountsBut(Payers) /\ c.creditor.account \in AccountsBut(Payers)
      /\ c.alias.value.id \in Payees /\ c.creditor.account.id \in Payees
      /\ c.creditor.taxId \in Opt(Payees)
  BY CanonicalParts DEF PayeeKnown
<1>2. CASE rail \in {"PIX", "SPEI"}
  <2>1. m.key = c.alias.value
    BY <1>2 DEF fromCanonical, canonicalToSpei, canonicalToPix
  <2> QED
    BY <1>1, <1>2, <2>1 DEF Credited
<1>3. CASE rail = "SWIFT_MT103"
  <2> DEFINE stripped == Strip(c.creditor.account, {"PIX-", "SPEI-", "SWIFT-"})
             iban == IsIban(c.creditor.account)
  <2>1. stripped \in AccountsBut(Payers) /\ stripped.id \in Payees
    BY <1>1, PrefixTakenOff, PartsKept
  <2>2. /\ m.beneficiary.account = IF iban THEN None ELSE stripped
        /\ m.beneficiary.iban = IF iban THEN c.creditor.account ELSE None
    BY <1>3 DEF fromCanonical, canonicalToSwiftMt103
  <2> HIDE DEF stripped, iban
  <2>3. stripped # None /\ c.creditor.account # None
    BY <1>1, <2>1, AccountsAreTyped
  <2>4. /\ creditorAccount(m.beneficiary).id \in Payees
        /\ (m.beneficiary.iban ?? m.beneficiary.account).id \in Payees
    BY <1>1, <2>1, <2>2, <2>3 DEF creditorAccount, ??
  <2> QED
    BY <1>3, <2>4 DEF NamedIn, Credited
<1>4. CASE rail = "ISO20022_MX"
  <2>1. m.CdtrAcct = cdtrAcct(c)
    BY <1>4 DEF fromCanonical, canonicalToIso20022Mx
  <2>2. c.alias.value # None
    BY <1>1, AccountsAreTyped
  <2>3. \/ m.CdtrAcct.IBAN = c.alias.value /\ m.CdtrAcct.Othr = None
        \/ m.CdtrAcct.IBAN = None /\ m.CdtrAcct.Othr = c.alias.value
    BY <2>1, <2>2 DEF cdtrAcct, buildAccount, ??
  <2> QED
    BY <1>1, <1>4, <2>2, <2>3 DEF NamedIn, Credited, ??
<1>5. CASE rail = "ACH_NACHA"
  <2> DEFINE payee == parseAbaAlias(c.alias.value, c.creditor.account)
  <2>1. payee.account \in AccountsBut(Payers) /\ payee.account.id \in Payees
        /\ payee.bank \in Banks
    BY <1>1, RoutingInFront, RoutingKeepsPayee, KnownBanks
  <2>2. m.account = CutAt(payee.account, 17) /\ m.routingTransit = payee.bank
    BY <1>5 DEF fromCanonical, canonicalToAchNacha
  <2> HIDE DEF payee
  <2>3. m.account \in AccountsBut(Payers) /\ m.account.id \in Payees
    BY <2>1, <2>2, CutKeepsId
  <2>4. At(m.routingTransit, m.account).id \in Payees
    BY <2>1, <2>2, <2>3, PartsKept
  <2> QED
    BY <1>5, <2>3, <2>4 DEF NamedIn, Credited
<1>6. CASE rail = "FEDNOW"
  <2> DEFINE bank == c.destination.routing ?? DefaultAba
             payee == extractRtnAndAccount(c.alias.value, bank, c.creditor.account)
  <2>1. bank \in Banks
    BY CanonicalParts, AgentParts, KnownBanks DEF ??, Opt
  <2>2. payee.account \in AccountsBut(Payers) /\ payee.account.id \in Payees
        /\ payee.bank \in Banks
    BY <1>1, <2>1, RoutingInFront, RoutingKeepsPayee
  <2>3. m.CdtrAcct = CutAt(payee.account, 34) /\ m.CdtrAgt = payee.bank
    BY <1>6 DEF fromCanonical, canonicalToFednow
  <2> HIDE DEF payee
  <2>4. m.CdtrAcct \in AccountsBut(Payers) /\ m.CdtrAcct.id \in Payees
    BY <2>2, <2>3, CutKeepsId
  <2>5. At(m.CdtrAgt, m.CdtrAcct).id \in Payees
    BY <2>2, <2>3, <2>4, PartsKept
  <2> QED
    BY <1>6, <2>4, <2>5 DEF NamedIn, Credited
<1>7. CASE rail = "BRE_B"
  <2> DEFINE bare == IF HasBank(c.creditor.account) THEN Behind(c.creditor.account)
                     ELSE c.creditor.account
             key == IF c.alias.type = "LLAVE_BREB" THEN c.alias.value ELSE bare
  <2>1. bare \in AccountsBut(Payers) /\ bare.id \in Payees
    BY <1>1, BankTakenOff, PartsKept
  <2>2. key \in AccountsBut(Payers) /\ key.id \in Payees
    BY <1>1, <2>1
  <2>3. /\ m.llave = Strip(key, {"BREB-"})
        /\ m.beneficiario.numeroCuenta = bare
        /\ m.beneficiario.nit \in {c.creditor.taxId, None}
        /\ m.beneficiario.cc \in {c.creditor.taxId, None}
    BY <1>7 DEF fromCanonical, canonicalToBreb
  <2> HIDE DEF bare, key
  <2>4. m.llave.id \in Payees
    BY <2>2, <2>3, PartsKept
  <2> QED
    BY <1>1, <1>7, <2>1, <2>3, <2>4 DEF NamedIn, Credited, Opt
<1> QED
  BY <1>2, <1>3, <1>4, <1>5, <1>6, <1>7 DEF Rails

LEMMA MxAccountParts ==
  ASSUME NEW p, NEW a, a \in MxAccounts(p) \cup {MxAccountAtBank(p)}
  PROVE  /\ a.IBAN = None \/ a.IBAN = Account("", p.iban)
         /\ \/ a.Othr = None \/ a.Othr = Account("", p.account)
            \/ a.Othr = At(FarBank, Account("", p.account))
<1> DEFINE i == Account("", p.iban)
           o == Account("", p.account)
           b == At(FarBank, o)
<1>1. \/ a = [IBAN |-> i, Othr |-> None] \/ a = [IBAN |-> None, Othr |-> o]
      \/ a = [IBAN |-> None, Othr |-> None] \/ a = [IBAN |-> None, Othr |-> b]
  BY DEF MxAccounts, MxAccountAtBank
<1> HIDE DEF i, o, b
<1>2. (a.IBAN = None \/ a.IBAN = i) /\ (a.Othr = None \/ a.Othr = o \/ a.Othr = b)
  BY <1>1
<1> QED
  BY <1>2 DEF i, o, b

LEMMA NamedFirst ==
  ASSUME NEW rail \in NativeRails, NEW m \in Messages(rail),
         rail = "PIX" => m.chave # None,
         rail = "SWIFT_MT103" => CreditorIds(rail, m) # {None},
         rail \notin {"PIX", "SWIFT_MT103"} => Credited(rail, m) # None
  PROVE  NamedIn(rail, m)
<1>1. \A f \in Fields : Payee[f] \in Payees
  BY DEF Payees
<1>2. \A i : Account("", i).id = i
  BY DEF Account
<1>3. CASE rail = "PIX"
  <2>1. m \in PixMessages
    BY <1>3 DEF Messages
  <2>2. m.chave \in Maybe(Payee.key) /\ m.recebedor.cpf \in Maybe(Payee.person)
    BY <2>1, PixParties DEF PixPayees
  <2> QED
    BY <1>1, <1>3, <2>2 DEF NamedIn, Maybe, Opt, Fields
<1>4. CASE rail = "SWIFT_MT103"
  <2> DEFINE b == m.beneficiary
  <2>1. m \in SwiftMessages
    BY <1>4 DEF Messages
  <2>2. /\ b.account \in Maybe(Account("", Payee.account)) /\ b.name \in Maybe(Payee.name)
        /\ b.iban \in Maybe(Account("", Payee.iban))
    BY <2>1 DEF SwiftMessages
  <2>3. ~(b.account = None /\ b.iban = None /\ b.name = None)
    BY <1>4 DEF CreditorIds, IdsOf
  <2>4. creditorAccount(b).id \in Payees
    BY <1>1, <1>2, <2>2, <2>3 DEF creditorAccount, ??, Maybe, Fields
  <2> QED
    BY <1>4, <2>4 DEF NamedIn
<1>5. CASE rail = "ISO20022_MX"
  <2> DEFINE a == m.CdtrAcct
  <2>1. m \in MxMessages
    BY <1>5 DEF Messages
  <2>2. a \in MxAccounts(Payee) \cup {MxAccountAtBank(Payee)}
    BY <2>1 DEF MxMessages
  <2>3. a.IBAN # None \/ a.Othr # None
    BY <1>5 DEF Credited, ??
  <2>4. At(FarBank, Account("", Payee.account)).id = Payee.account
    BY <1>2, PartyFields, PartsKept DEF Fields, Prefixes
  <2>5. /\ a.IBAN = None \/ a.IBAN = Account("", Payee.iban)
        /\ \/ a.Othr = None \/ a.Othr = Account("", Payee.account)
           \/ a.Othr = At(FarBank, Account("", Payee.account))
    BY <2>2, MxAccountParts
  <2>6. Credited(rail, m).id \in Payees
    BY <1>1, <1>2, <1>5, <2>3, <2>4, <2>5 DEF Credited, ??, Fields
  <2> QED
    BY <1>5, <2>3, <2>6 DEF NamedIn
<1>6. CASE rail = "ACH_NACHA"
  <2>1. m \in AchMessages
    BY <1>6 DEF Messages
  <2>2. m.account \in {Account("", Payee.account), CutAt(Account("", Payee.iban), 17)}
    BY <2>1 DEF AchMessages
  <2>3. CutAt(Account("", Payee.iban), 17).id = Payee.iban
    <3>1. Account("", Payee.iban) \in AccountsBut(Payers)
      BY PartyFields DEF Fields, Prefixes
    <3> QED
      BY <1>2, <3>1, CutKeepsId
  <2> QED
    BY <1>1, <1>2, <1>6, <2>2, <2>3 DEF NamedIn, Fields
<1>7. CASE rail = "FEDNOW"
  <2>1. m \in FednowMessages
    BY <1>7 DEF Messages
  <2>2. m.CdtrAcct \in {Account("", Payee.account), Account("", Payee.clabe)}
    BY <2>1 DEF FednowMessages
  <2> QED
    BY <1>1, <1>2, <1>7, <2>2 DEF NamedIn, Fields
<1>8. CASE rail = "BRE_B"
  <2>1. m \in BrebMessages
    BY <1>8 DEF Messages
  <2>2. m.llave = Account("", Payee.key) /\ m.beneficiario \in BrebSides(Payee)
    BY <2>1 DEF BrebMessages
  <2>3. /\ m.beneficiario.nit \in Maybe(Payee.company) /\ m.beneficiario.cc \in Maybe(Payee.person)
        /\ m.beneficiario.numeroCuenta \in Maybe(Account("", Payee.account))
    BY <2>2 DEF BrebSides
  <2> QED
    BY <1>1, <1>2, <1>8, <2>2, <2>3 DEF NamedIn, Maybe, Opt, Fields
<1> QED
  BY <1>3, <1>4, <1>5, <1>6, <1>7, <1>8 DEF NativeRails, Rails

PayeeInv ==
    NamesPayee =>
        /\ AtHand => PayeeKnown(canonical)
        /\ Onward => /\ Credited(Current, message).id \in Payees
                     /\ Current \notin {"PIX", "SPEI"} => NamedIn(Current, message)

LEMMA NamesPayeeKept ==
  ASSUME first' = first, Origin' = Origin
  PROVE  NamesPayee' <=> NamesPayee
BY DEF NamesPayee, IsRequest

LEMMA PayeeStep ==
  ASSUME PathInv, PayeeInv, [Next]_vars
  PROVE  PayeeInv'
<1> USE DEF PathInv
<1>1. ASSUME NEW r, NEW rail, NEW m, Submit(r, rail, m) PROVE PayeeInv'
  BY <1>1 DEF Submit, PayeeInv, AtHand, Onward
<1>2. ASSUME SubmitPayment \/ SubmitRequest \/ SubmitMessage PROVE PayeeInv'
  BY <1>1, <1>2 DEF SubmitPayment, SubmitRequest, SubmitMessage
<1>3. ASSUME NEW c, stage = "received", Accept(c), NamesPayee => PayeeKnown(c)
      PROVE  PayeeInv'
  <2>1. UNCHANGED <<path, first>> /\ canonical' = c /\ stage' \in {"canonical", "rejected"}
    BY <1>3 DEF Accept
  <2>2. NamesPayee' <=> NamesPayee
    BY <2>1, NamesPayeeKept DEF Origin
  <2>3. PayeeKnown(canonical)' <=> PayeeKnown(c)
    BY <2>1 DEF PayeeKnown
  <2> QED
    BY <1>3, <2>1, <2>2, <2>3 DEF PayeeInv, Onward, AtHand
<1>4. ASSUME NEW mapping \in Mappings, ReadRequest(mapping) PROVE PayeeInv'
  <2> DEFINE c == requestToCanonical(Current, message, mapping)
  <2>1. stage = "received" /\ "creditor" \in DOMAIN message /\ Accept(c)
    BY <1>4 DEF ReadRequest, IsRequest
  <2>2. message \in RequestType /\ Current \in ApiRails /\ Len(path) = 1
    BY <2>1, NativeIsNoRequest DEF FlowInv
  <2>3. message.creditor.alias.id \in Payees
    BY <2>1, <2>2 DEF FirstInv, Way, IsRequest, IsFresh
  <2>4. PayeeKnown(c)
    BY <2>2, <2>3, NamedRequest
  <2> HIDE DEF c
  <2> QED
    BY <1>3, <2>1, <2>4
<1>5. ASSUME MappingUnavailable PROVE PayeeInv'
  BY <1>5 DEF MappingUnavailable, PayeeInv, AtHand, Onward
<1>6. ASSUME ReadMessage PROVE PayeeInv'
  <2> DEFINE c == toCanonical(Current, message)
  <2>1. stage = "received" /\ "creditor" \notin DOMAIN message /\ Accept(c)
    BY <1>6 DEF ReadMessage, IsRequest
  <2>2. message \in ReadType(Current) /\ Current \in NativeRails
        /\ path \in Seq(Rails) /\ path # <<>>
    BY <2>1 DEF FlowInv
  <2>3. CASE Len(path) = 1
    <3>1. /\ message = first /\ ~IsRequest(first) /\ Origin = Current
          /\ first \in Messages(Origin)
      BY <2>1, <2>3 DEF FirstInv, Way, IsRequest, Origin, Current
    <3>2. NamesPayee => NamedIn(Current, message)
      <4>1. CASE Current = "PIX"
        BY <2>2, <3>1, <4>1, NamedFirst DEF NamesPayee
      <4>2. CASE Current = "SWIFT_MT103"
        BY <2>2, <3>1, <4>2, NamedFirst DEF NamesPayee
      <4>3. CASE Current \notin {"PIX", "SWIFT_MT103"}
        BY <2>2, <3>1, <4>3, NamedFirst DEF NamesPayee
      <4> QED
        BY <4>1, <4>2, <4>3
    <3> QED
      BY <1>3, <2>1, <2>2, <3>2, NamedRead
  <2>4. CASE Len(path) # 1
    <3>1. Len(path) \in Nat /\ Len(path) >= 1
      BY <2>2, PathLength
    <3>2. \A n \in Nat : n >= 1 /\ n # 1 => n > 1
      OBVIOUS
    <3>3. Len(path) > 1
      BY <2>4, <3>1, <3>2
    <3>4. Onward /\ Current \notin {"PIX", "SPEI"}
      BY <2>1, <2>2, <3>3 DEF FirstInv, Onward, NativeRails
    <3>5. NamesPayee => NamedIn(Current, message)
      BY <3>4 DEF PayeeInv
    <3> QED
      BY <1>3, <2>1, <2>2, <3>5, NamedRead
  <2> QED
    BY <2>3, <2>4
<1>7. ASSUME Normalize PROVE PayeeInv'
  <2>1. /\ stage = "canonical" /\ stage' = "normalized"
        /\ canonical' = normalizeCurrency(canonical)
        /\ UNCHANGED <<path, first, message>> /\ canonical \in Canonicals
    BY <1>7 DEF Normalize, FlowInv
  <2>2. canonical'.alias = canonical.alias /\ canonical'.creditor = canonical.creditor
    BY <2>1 DEF normalizeCurrency, Canonicals
  <2>3. NamesPayee' <=> NamesPayee
    BY <2>1, NamesPayeeKept DEF Origin
  <2> QED
    BY <2>1, <2>2, <2>3 DEF PayeeInv, PayeeKnown, AtHand, Onward
<1>8. ASSUME NEW rail \in Rails, Emit(rail) PROVE PayeeInv'
  <2>1. /\ AtHand /\ stage' = "emitted" /\ path' = Append(path, rail) /\ first' = first
        /\ message' = fromCanonical(rail, canonical) /\ canonical \in Canonicals
        /\ path \in Seq(Rails) /\ path # <<>>
    BY <1>8 DEF Emit, AtHand, FlowInv
  <2>2. Origin' = Origin /\ Current' = rail
    BY <2>1, PathGrows DEF Origin, Current
  <2>3. NamesPayee' <=> NamesPayee
    BY <2>1, <2>2, NamesPayeeKept
  <2>4. NamesPayee => /\ rail \notin {"PIX", "SPEI"} => NamedIn(rail, message')
                      /\ Credited(rail, message').id \in Payees
    BY <2>1, NamedWritten DEF PayeeInv
  <2>5. /\ NamedIn(Current, message)' <=> NamedIn(rail, message')
        /\ Credited(Current, message)' = Credited(rail, message')
    BY <2>2 DEF NamedIn, Credited
  <2> QED
    BY <2>1, <2>2, <2>3, <2>4, <2>5 DEF PayeeInv, AtHand
<1>9. ASSUME (stage = "emitted" /\ stage' = "received") \/ stage' = stage,
             UNCHANGED <<path, first, message, canonical>>
      PROVE  PayeeInv'
  <2>1. NamesPayee' <=> NamesPayee
    BY <1>9, NamesPayeeKept DEF Origin
  <2>2. /\ Current' = Current /\ Credited(Current, message)' = Credited(Current, message)
        /\ NamedIn(Current, message)' <=> NamedIn(Current, message)
        /\ PayeeKnown(canonical)' <=> PayeeKnown(canonical)
    BY <1>9 DEF Current, Credited, NamedIn, PayeeKnown
  <2> QED
    BY <1>9, <2>1, <2>2 DEF PayeeInv, AtHand, Onward
<1>10. ASSUME HandIn PROVE PayeeInv'
  BY <1>9, <1>10 DEF HandIn
<1>11. CASE UNCHANGED vars
  BY <1>9, <1>11 DEF vars
<1> QED
  BY <1>2, <1>4, <1>5, <1>6, <1>7, <1>8, <1>10, <1>11 DEF Next

(* Whoever is named to be paid is credited by every message made of the    *)
(* payment: no default takes the place of his alias or account.            *)
THEOREM PayeeCredited == Spec => []PayeeIsCredited
<1>1. Init => PayeeInv
  BY DEF Init, PayeeInv, AtHand, Onward
<1>2. PathInv /\ PayeeInv /\ [Next]_vars => PayeeInv'
  BY PayeeStep
<1>3. PayeeInv => PayeeIsCredited
  BY DEF PayeeInv, PayeeIsCredited, Onward
<1> QED
  BY <1>1, <1>2, <1>3, PathKept, PTL DEF Spec

(***************************************************************************)
(* The bank goes with the account                                          *)
(***************************************************************************)

UsRails == {"ACH_NACHA", "FEDNOW", "ISO20022_MX"}

OnlyUs ==
    /\ Origin \in {"ACH_NACHA", "FEDNOW"}
    /\ \A k \in 1 .. Len(path) : path[k] \in UsRails

ForThatBank(a) ==
    a \in AccountsBut(Payers) /\ a.banks = <<FarBank>> /\ a.id = Credited(Origin, first).id

BankInv ==
    OnlyUs =>
        /\ AtHand => ForThatBank(canonical.alias.value)
        /\ stage \in {"received", "emitted"} => ForThatBank(Credited(Current, message))

LEMMA FarBankIsAba == FarBank \in Banks /\ FarBank.digits = 9
<1>1. FarBank = [digits |-> 9, code |-> "111000025", check |-> TRUE]
  BY DEF FarBank, Aba
<1>2. FarBank \in Banks
  BY <1>1, Zenon DEF Banks, Codes
<1> QED
  BY <1>1, <1>2

LEMMA OneBankInFront ==
  ASSUME NEW a \in AccountsBut(Payers), a.banks = <<>>
  PROVE  /\ At(FarBank, a) \in AccountsBut(Payers)
         /\ At(FarBank, a).banks = <<FarBank>> /\ At(FarBank, a).id = a.id
<1>1. \A x : <<x>> \o <<>> = <<x>>
  OBVIOUS
<1>2. At(FarBank, a) \in AccountsBut(Payers) /\ At(FarBank, a).id = a.id
      /\ At(FarBank, a).banks = <<FarBank>> \o a.banks
  BY FarBankIsAba, BankPutInFront
<1> QED
  BY <1>1, <1>2

LEMMA FirstAtBank ==
  ASSUME NEW rail \in {"ACH_NACHA", "FEDNOW"}, NEW m \in Messages(rail)
  PROVE  Credited(rail, m) \in AccountsBut(Payers) /\ Credited(rail, m).banks = <<FarBank>>
<1>2. \A f \in Fields : /\ Account("", Payee[f]) \in AccountsBut(Payers)
                        /\ Account("", Payee[f]).banks = <<>>
  BY PartyFields DEF Account, Prefixes
<1>3. CASE rail = "ACH_NACHA"
  <2>1. /\ m.routingTransit = FarBank
        /\ m.account \in {Account("", Payee.account), CutAt(Account("", Payee.iban), 17)}
    BY <1>3 DEF Messages, AchMessages
  <2>2. /\ Account("", Payee.account) \in AccountsBut(Payers)
        /\ Account("", Payee.account).banks = <<>>
        /\ Account("", Payee.iban) \in AccountsBut(Payers)
        /\ Account("", Payee.iban).banks = <<>>
    BY <1>2 DEF Fields
  <2>3. /\ CutAt(Account("", Payee.iban), 17) \in AccountsBut(Payers)
        /\ CutAt(Account("", Payee.iban), 17).banks = <<>>
    BY <2>2, CutKeepsId
  <2>4. m.account \in AccountsBut(Payers) /\ m.account.banks = <<>>
    BY <2>1, <2>2, <2>3
  <2> QED
    BY <1>3, <2>1, <2>4, OneBankInFront DEF Credited
<1>4. CASE rail = "FEDNOW"
  <2>1. /\ m.CdtrAgt = FarBank
        /\ m.CdtrAcct \in {Account("", Payee.account), Account("", Payee.clabe)}
    BY <1>4 DEF Messages, FednowMessages
  <2> QED
    BY <1>2, <1>4, <2>1, OneBankInFront DEF Credited, Fields
<1> QED
  BY <1>3, <1>4

LEMMA BankRead ==
  ASSUME NEW rail \in UsRails, NEW m, Credited(rail, m) \in AccountsBut(Payers)
  PROVE  toCanonical(rail, m).alias.value = Credited(rail, m)
<1>1. CASE rail = "ACH_NACHA"
  BY <1>1 DEF toCanonical, achNachaToCanonical, Credited
<1>2. CASE rail = "FEDNOW"
  BY <1>2 DEF toCanonical, fednowToCanonical, Credited
<1>3. CASE rail = "ISO20022_MX"
  <2>1. Credited(rail, m) # None
    BY AccountsAreTyped
  <2>2. toCanonical(rail, m).alias.value = m.CdtrAcct.IBAN ?? (m.CdtrAcct.Othr ?? Unknown)
    BY <1>3 DEF toCanonical, iso20022MxToCanonical
  <2> QED
    BY <1>3, <2>1, <2>2 DEF Credited, ??
<1> QED
  BY <1>1, <1>2, <1>3 DEF UsRails

LEMMA BankInFront ==
  ASSUME NEW alias \in AccountsBut(Payers), alias.banks = <<FarBank>>
  PROVE  \E account \in AccountsBut(Payers) :
            /\ \A other : parseAbaAlias(alias, other) = [bank |-> FarBank, account |-> account]
            /\ \A bank, other : extractRtnAndAccount(alias, bank, other) =
                                   [bank |-> FarBank, account |-> account]
            /\ account.banks = <<>> /\ account.id = alias.id
<1> DEFINE account == Strip(Behind(alias), {"PIX-", "SPEI-"})
<1>1. HasAba(alias) /\ Head(alias.banks) = FarBank /\ Tail(alias.banks) = <<>>
  BY FarBankIsAba DEF HasAba, HasBank
<1>2. /\ \A other : parseAbaAlias(alias, other) = [bank |-> FarBank, account |-> account]
      /\ \A bank, other : extractRtnAndAccount(alias, bank, other) =
                             [bank |-> FarBank, account |-> account]
  BY <1>1 DEF parseAbaAlias, extractRtnAndAccount
<1>3. /\ Behind(alias) \in AccountsBut(Payers) /\ Behind(alias).banks = <<>>
      /\ Behind(alias).id = alias.id
  BY <1>1, BankTakenOff, PartsKept DEF HasAba
<1>4. account \in AccountsBut(Payers) /\ account.banks = <<>> /\ account.id = alias.id
  BY <1>3, PrefixTakenOff, PartsKept
<1> HIDE DEF account
<1> QED
  BY <1>2, <1>4

LEMMA CutBehindBank ==
  ASSUME NEW a \in AccountsBut(Payers), a.banks = <<>>, NEW n \in Nat
  PROVE  /\ At(FarBank, CutAt(a, n)) \in AccountsBut(Payers)
         /\ At(FarBank, CutAt(a, n)).banks = <<FarBank>>
         /\ At(FarBank, CutAt(a, n)).id = a.id
<1>1. /\ CutAt(a, n) \in AccountsBut(Payers) /\ CutAt(a, n).banks = <<>>
      /\ CutAt(a, n).id = a.id
  BY CutKeepsId
<1> QED
  BY <1>1, OneBankInFront

LEMMA BankWritten ==
  ASSUME NEW rail \in UsRails, NEW c \in Canonicals, c.alias.value.banks = <<FarBank>>,
         NEW m, m = fromCanonical(rail, c)
  PROVE  /\ Credited(rail, m) \in AccountsBut(Payers)
         /\ Credited(rail, m).banks = <<FarBank>>
         /\ Credited(rail, m).id = c.alias.value.id
<1>1. c.alias.value \in AccountsBut(Payers)
  BY CanonicalParts
<1> PICK account \in AccountsBut(Payers) :
       /\ \A other : parseAbaAlias(c.alias.value, other) = [bank |-> FarBank, account |-> account]
       /\ \A bank, other : extractRtnAndAccount(c.alias.value, bank, other) =
                              [bank |-> FarBank, account |-> account]
       /\ account.banks = <<>> /\ account.id = c.alias.value.id
  BY <1>1, BankInFront
<1>2. CASE rail = "ACH_NACHA"
  <2>1. m.account = CutAt(account, 17) /\ m.routingTransit = FarBank
    BY <1>2 DEF fromCanonical, canonicalToAchNacha
  <2> QED
    BY <1>2, <2>1, CutBehindBank DEF Credited
<1>3. CASE rail = "FEDNOW"
  <2>1. m.CdtrAcct = CutAt(account, 34) /\ m.CdtrAgt = FarBank
    BY <1>3 DEF fromCanonical, canonicalToFednow
  <2> QED
    BY <1>3, <2>1, CutBehindBank DEF Credited
<1>4. CASE rail = "ISO20022_MX"
  <2>1. m.CdtrAcct = cdtrAcct(c)
    BY <1>4 DEF fromCanonical, canonicalToIso20022Mx
  <2>2. c.alias.value # None
    BY <1>1, AccountsAreTyped
  <2>3. Credited(rail, m) = c.alias.value
    BY <1>4, <2>1, <2>2 DEF Credited, cdtrAcct, buildAccount, ??
  <2> QED
    BY <1>1, <2>3
<1> QED
  BY <1>2, <1>3, <1>4 DEF UsRails

LEMMA BankStep ==
  ASSUME PathInv, BankInv, [Next]_vars
  PROVE  BankInv'
<1> USE DEF PathInv
<1>1. ASSUME NEW r, NEW rail \in ApiRails, NEW m, Submit(r, rail, m) PROVE BankInv'
  <2>1. Origin' \in ApiRails
    BY <1>1 DEF Submit, Origin
  <2> QED
    BY <2>1 DEF BankInv, OnlyUs, ApiRails
<1>2. ASSUME SubmitPayment \/ SubmitRequest PROVE BankInv'
  <2>1. ASSUME NEW req \in Requests("payments") PROVE inferRail(req.debtor.alias) \in ApiRails
    <3>1. req.debtor.alias.prefix \in {"PIX-", "SPEI-", "BREB-"}
      BY DEF Requests, Aliases, Account
    <3> QED
      BY <3>1 DEF inferRail, ApiRails
  <2> QED
    BY <1>1, <1>2, <2>1 DEF SubmitPayment, SubmitRequest
<1>3. ASSUME SubmitMessage PROVE BankInv'
  <2>1. PICK rail \in NativeRails : \E m \in Messages(rail) : Submit("translate", rail, m)
    BY <1>3 DEF SubmitMessage
  <2>2. PICK m \in Messages(rail) : Submit("translate", rail, m)
    BY <2>1
  <2>3. /\ path' = <<rail>> /\ stage' = "received" /\ message' = m /\ first' = m
        /\ Origin' = rail /\ Current' = rail
    BY <2>2 DEF Submit, Origin, Current
  <2>4. CASE rail \in {"ACH_NACHA", "FEDNOW"}
    <3>1. Credited(rail, m) \in AccountsBut(Payers) /\ Credited(rail, m).banks = <<FarBank>>
      BY <2>2, <2>4, FirstAtBank
    <3>2. /\ Credited(Current, message)' = Credited(rail, m)
          /\ Credited(Origin, first)' = Credited(rail, m)
      BY <2>3 DEF Credited
    <3>3. ForThatBank(Credited(Current, message))'
      BY <3>1, <3>2 DEF ForThatBank
    <3> QED
      BY <2>3, <3>3 DEF BankInv, AtHand
  <2>5. CASE rail \notin {"ACH_NACHA", "FEDNOW"}
    BY <2>3, <2>5 DEF BankInv, OnlyUs
  <2> QED
    BY <2>4, <2>5
<1>4. ASSUME UNCHANGED <<path, first>>
      PROVE  /\ OnlyUs' <=> OnlyUs
             /\ \A a : ForThatBank(a)' <=> ForThatBank(a)
             /\ Current' = Current /\ Credited(Origin, first)' = Credited(Origin, first)
  <2>1. Origin' = Origin /\ Current' = Current
    BY <1>4 DEF Origin, Current
  <2>2. Credited(Origin, first)' = Credited(Origin, first)
    BY <1>4, <2>1 DEF Credited
  <2> QED
    BY <1>4, <2>1, <2>2 DEF OnlyUs, ForThatBank
<1>5. ASSUME NEW mapping \in Mappings, ReadRequest(mapping) PROVE BankInv'
  <2>1. stage = "received" /\ "creditor" \in DOMAIN message
        /\ UNCHANGED <<path, first>>
    BY <1>5 DEF ReadRequest, IsRequest, Accept
  <2>2. Current \in ApiRails /\ Len(path) = 1
    BY <2>1, NativeIsNoRequest DEF FlowInv
  <2>3. ~OnlyUs
    BY <2>2 DEF OnlyUs, ApiRails, UsRails, Current, Origin
  <2> QED
    BY <1>4, <2>1, <2>3 DEF BankInv
<1>6. ASSUME MappingUnavailable PROVE BankInv'
  BY <1>4, <1>6 DEF MappingUnavailable, BankInv, AtHand
<1>7. ASSUME ReadMessage PROVE BankInv'
  <2> DEFINE c == toCanonical(Current, message)
  <2>1. /\ stage = "received" /\ stage' \in {"canonical", "rejected"} /\ canonical' = c
        /\ UNCHANGED <<path, first>>
    BY <1>7 DEF ReadMessage, Accept
  <2>2. path \in Seq(Rails) /\ path # <<>>
    BY <2>1 DEF FlowInv
  <2>3. ASSUME OnlyUs PROVE ForThatBank(c.alias.value)
    <3>1. Current \in UsRails
      BY <2>2, <2>3, PathLength DEF OnlyUs, Current
    <3>2. ForThatBank(Credited(Current, message))
      BY <2>1, <2>3 DEF BankInv
    <3> QED
      BY <3>1, <3>2, BankRead DEF ForThatBank
  <2> HIDE DEF c
  <2>4. OnlyUs' => ForThatBank(canonical.alias.value)'
    BY <1>4, <2>1, <2>3 DEF ForThatBank
  <2> QED
    BY <2>1, <2>4 DEF BankInv, AtHand
<1>8. ASSUME Normalize PROVE BankInv'
  <2>1. /\ stage = "canonical" /\ stage' = "normalized"
        /\ canonical' = normalizeCurrency(canonical)
        /\ UNCHANGED <<path, first>> /\ canonical \in Canonicals
    BY <1>8 DEF Normalize, FlowInv
  <2>2. canonical'.alias = canonical.alias
    BY <2>1 DEF normalizeCurrency, Canonicals
  <2>3. ForThatBank(canonical.alias.value)' <=> ForThatBank(canonical.alias.value)
    BY <1>4, <2>1, <2>2 DEF ForThatBank
  <2> QED
    BY <1>4, <2>1, <2>3 DEF BankInv, AtHand
<1>9. ASSUME NEW rail \in Rails, Emit(rail) PROVE BankInv'
  <2>1. /\ AtHand /\ stage' = "emitted" /\ path' = Append(path, rail) /\ first' = first
        /\ message' = fromCanonical(rail, canonical) /\ canonical \in Canonicals
        /\ path \in Seq(Rails) /\ path # <<>>
    BY <1>9 DEF Emit, AtHand, FlowInv
  <2>2. Origin' = Origin /\ Current' = rail
    BY <2>1, PathGrows DEF Origin, Current
  <2>3. OnlyUs' => OnlyUs /\ rail \in UsRails
    <3>1. /\ Len(path') = Len(path) + 1 /\ path'[Len(path) + 1] = rail /\ Len(path) \in Nat
          /\ \A k \in 1 .. Len(path) : path'[k] = path[k]
      BY <2>1, PathGrows
    <3> QED
      BY <2>2, <3>1 DEF OnlyUs
  <2>4. ASSUME OnlyUs' PROVE ForThatBank(Credited(Current, message))'
    <3>1. ForThatBank(canonical.alias.value) /\ rail \in UsRails
      BY <2>1, <2>3, <2>4 DEF BankInv
    <3>2. /\ Credited(rail, message') \in AccountsBut(Payers)
          /\ Credited(rail, message').banks = <<FarBank>>
          /\ Credited(rail, message').id = canonical.alias.value.id
      BY <2>1, <3>1, BankWritten DEF ForThatBank
    <3>3. /\ Credited(Current, message)' = Credited(rail, message')
          /\ Credited(Origin, first)' = Credited(Origin, first)
      BY <2>1, <2>2 DEF Credited
    <3> QED
      BY <3>1, <3>2, <3>3 DEF ForThatBank
  <2> QED
    BY <2>1, <2>4 DEF BankInv, AtHand
<1>10. ASSUME (stage = "emitted" /\ stage' = "received") \/ stage' = stage,
              UNCHANGED <<path, first, message, canonical>>
       PROVE  BankInv'
  <2>1. /\ Credited(Current, message)' = Credited(Current, message)
        /\ OnlyUs' <=> OnlyUs
    BY <1>4, <1>10 DEF Credited
  <2>2. /\ ForThatBank(Credited(Current, message))' <=> ForThatBank(Credited(Current, message))
        /\ ForThatBank(canonical.alias.value)' <=> ForThatBank(canonical.alias.value)
    BY <1>4, <1>10, <2>1 DEF ForThatBank
  <2> QED
    BY <1>10, <2>1, <2>2 DEF BankInv, AtHand
<1>11. ASSUME HandIn PROVE BankInv'
  BY <1>10, <1>11 DEF HandIn
<1>12. CASE UNCHANGED vars
  BY <1>10, <1>12 DEF vars
<1> QED
  BY <1>2, <1>3, <1>5, <1>6, <1>7, <1>8, <1>9, <1>11, <1>12 DEF Next

(* parseAbaAlias and extractRtnAndAccount find the bank in front of the    *)
(* alias, so it goes with the account from ACH or FedNow over MX and back. *)
THEOREM BanksKept == Spec => []BankIsKept
<1>1. Init => BankInv
  BY DEF Init, BankInv, AtHand
<1>2. PathInv /\ BankInv /\ [Next]_vars => BankInv'
  BY BankStep
<1>3. PathInv /\ BankInv => BankIsKept
  <2> SUFFICES ASSUME PathInv, BankInv, stage = "emitted", OnlyUs
               PROVE  /\ Credited(Current, message).banks = Credited(Origin, first).banks
                      /\ Credited(Current, message).id = Credited(Origin, first).id
    BY DEF BankIsKept, OnlyUs, UsRails
  <2>1. ForThatBank(Credited(Current, message))
    BY DEF BankInv
  <2>2. first \in Messages(Origin)
    BY DEF PathInv, FirstInv, Way, OnlyUs, ApiRails
  <2>3. Credited(Origin, first).banks = <<FarBank>>
    BY <2>2, FirstAtBank DEF OnlyUs
  <2> QED
    BY <2>1, <2>3 DEF ForThatBank
<1> QED
  BY <1>1, <1>2, <1>3, PathKept, PTL DEF Spec

(***************************************************************************)
(* The whole account                                                       *)
(***************************************************************************)

Stays(p) == Cardinality({k \in 1 .. Len(p) : p[k] = "BRE_B"})
ByFednow(p) == \E k \in 2 .. Len(p) : p[k] = "FEDNOW"
ByAch(p) == \E k \in 1 .. Len(p) : p[k] = "ACH_NACHA"

\* No ABA number in front, and at most n codes of banks
Nested(a, n) == Len(a.banks) <= n /\ \A k \in 1 .. Len(a.banks) : a.banks[k].digits # 9

\* The same, behind an ABA number or not
Fronted(a, n) == Nested(a, n) \/ (HasAba(a) /\ Nested(Behind(a), n))

\* Whole, or as much as FedNow leaves of an account behind n codes
Left(a, n, fed) == a.left >= Length[a.id] \/ (fed /\ a.left >= 28 - 9 * n)

Fits(a, n, fed) == Fronted(a, n) /\ Left(a, n, fed)

CanonicalFits(c, n, fed) ==
    /\ Fits(c.alias.value, n, fed) /\ Fits(c.creditor.account, n, fed)
    /\ HasAba(c.creditor.account) => HasAba(c.alias.value)
    /\ c.alias.type = "LLAVE_BREB" => ~HasAba(c.alias.value)
    /\ c.destination.routing # None => c.destination.routing.digits = 9
    /\ c.destination.ispb # None => c.destination.ispb.digits # 9

MessageFits(rail, m, n, fed) ==
    CASE rail = "PIX" -> m.recebedor.ispb # None => m.recebedor.ispb.digits # 9
      [] rail = "SWIFT_MT103" ->
            /\ m.beneficiary.account # None => Fits(m.beneficiary.account, n, fed)
            /\ m.beneficiary.iban # None => Fits(m.beneficiary.iban, n, fed)
      [] rail = "ISO20022_MX" -> /\ m.CdtrAcct.IBAN # None => Fits(m.CdtrAcct.IBAN, n, fed)
                                 /\ m.CdtrAcct.Othr # None => Fits(m.CdtrAcct.Othr, n, fed)
                                 /\ m.CdtrAgt.MmbId # None => m.CdtrAgt.MmbId.digits = 9
      [] rail = "FEDNOW" -> /\ Nested(m.CdtrAcct, n) /\ Left(m.CdtrAcct, n, fed)
                            /\ m.CdtrAgt.digits = 9
      [] rail = "BRE_B" -> /\ m.beneficiario.codigoEntidad.digits # 9
                           /\ Nested(m.llave, n - 1) /\ Left(m.llave, n, fed)
                           /\ m.beneficiario.numeroCuenta # None =>
                                 /\ Nested(m.beneficiario.numeroCuenta, n - 1)
                                 /\ Left(m.beneficiario.numeroCuenta, n, fed)

LEMMA NoAbaWhenNested ==
  ASSUME NEW S, NEW a \in AccountsBut(S), NEW n, Nested(a, n)
  PROVE  ~HasAba(a)
<1>1. a.banks \in Seq(Banks)
  BY DEF AccountsBut
<1>2. HasBank(a) => 1 \in 1 .. Len(a.banks) /\ Head(a.banks) = a.banks[1]
  BY <1>1 DEF HasBank
<1> QED
  BY <1>2 DEF HasAba, Nested

LEMMA FreshFits ==
  ASSUME NEW S, NEW a \in AccountsBut(S), a.banks = <<>>, a.left = Length[a.id],
         NEW n \in Nat, NEW fed
  PROVE  Nested(a, n) /\ Left(a, n, fed) /\ Fits(a, n, fed) /\ ~HasAba(a)
<1>1. Length[a.id] \in Nat
  BY TranslationAssumption DEF AccountsBut
<1> QED
  BY <1>1 DEF Nested, Fronted, Left, Fits, HasAba, HasBank

LEMMA StripFits ==
  ASSUME NEW S, NEW a \in AccountsBut(S), NEW prefixes, NEW n \in Nat, NEW fed
  PROVE  /\ Nested(a, n) => Nested(Strip(a, prefixes), n)
         /\ Left(a, n, fed) => Left(Strip(a, prefixes), n, fed)
         /\ Fits(a, n, fed) => Fits(Strip(a, prefixes), n, fed)
         /\ HasAba(Strip(a, prefixes)) <=> HasAba(a)
<1>1. HasBank(a) => Strip(a, prefixes) = a
  BY DEF Strip
<1>2. CASE HasBank(a)
  BY <1>1, <1>2
<1>3. CASE ~HasBank(a)
  <2>1. /\ Strip(a, prefixes).banks = a.banks /\ Strip(a, prefixes).id = a.id
        /\ Strip(a, prefixes).left = a.left
    BY DEF Strip, AccountsBut
  <2> QED
    BY <1>3, <2>1 DEF Nested, Left, Fits, Fronted, HasAba, HasBank
<1> QED
  BY <1>2, <1>3

LEMMA BehindFits ==
  ASSUME NEW S, NEW a \in AccountsBut(S), HasBank(a), NEW n \in Nat, NEW fed, Fits(a, n, fed)
  PROVE  /\ Behind(a) \in AccountsBut(S)
         /\ Nested(Behind(a), n) /\ Left(Behind(a), n, fed)
<1>1. a.banks \in Seq(Banks) /\ a.banks # <<>>
  BY DEF AccountsBut, HasBank
<1>2. /\ Behind(a).banks = Tail(a.banks) /\ Behind(a).id = a.id /\ Behind(a).left = a.left
      /\ Behind(a) \in AccountsBut(S)
  BY BankTakenOff, PartsKept DEF Behind, AccountsBut
<1>3. Left(Behind(a), n, fed)
  BY <1>2 DEF Fits, Left
<1>4. /\ Len(Tail(a.banks)) = Len(a.banks) - 1 /\ Len(a.banks) \in Nat
      /\ \A k \in 1 .. Len(Tail(a.banks)) :
            Tail(a.banks)[k] = a.banks[k + 1] /\ k + 1 \in 1 .. Len(a.banks)
  BY <1>1
<1>5. Nested(a, n) => Nested(Behind(a), n)
  BY <1>2, <1>4 DEF Nested
<1> QED
  BY <1>2, <1>3, <1>5 DEF Fits, Fronted

LEMMA AbaFits ==
  ASSUME NEW S, NEW a \in AccountsBut(S), NEW bank \in Banks, bank.digits = 9,
         NEW n \in Nat, NEW fed, Nested(a, n), Left(a, n, fed)
  PROVE  Fits(At(bank, a), n, fed) /\ HasAba(At(bank, a))
<1>1. a.banks \in Seq(Banks)
  BY DEF AccountsBut
<1>2. Head(<<bank>> \o a.banks) = bank /\ Tail(<<bank>> \o a.banks) = a.banks
  BY <1>1
<1>3. /\ At(bank, a).banks = <<bank>> \o a.banks /\ At(bank, a) \in AccountsBut(S)
      /\ At(bank, a).id = a.id /\ At(bank, a).left = a.left /\ HasBank(At(bank, a))
  BY BankPutInFront
<1>4. Behind(At(bank, a)).banks = a.banks
  BY <1>2, <1>3, PartsKept
<1> QED
  BY <1>2, <1>3, <1>4 DEF Fits, Fronted, Nested, Left, HasAba

LEMMA EntityFits ==
  ASSUME NEW S, NEW a \in AccountsBut(S), NEW bank \in Banks, bank.digits # 9,
         NEW n \in Nat, NEW fed, Nested(a, n - 1), Left(a, n, fed)
  PROVE  Fits(At(bank, a), n, fed) /\ ~HasAba(At(bank, a))
<1>1. a.banks \in Seq(Banks)
  BY DEF AccountsBut
<1> DEFINE banks == <<bank>> \o a.banks
<1>2. /\ Head(banks) = bank /\ Len(banks) = Len(a.banks) + 1 /\ Len(a.banks) \in Nat
      /\ banks[1] = bank /\ \A k \in 2 .. Len(banks) : banks[k] = a.banks[k - 1]
  BY <1>1
<1>3. /\ At(bank, a).banks = banks
      /\ At(bank, a).id = a.id /\ At(bank, a).left = a.left
  BY BankPutInFront
<1> HIDE DEF banks
<1>4. Nested(At(bank, a), n)
  <2>1. ASSUME NEW k \in 1 .. Len(banks) PROVE banks[k].digits # 9
    <3>1. CASE k = 1
      BY <1>2, <3>1
    <3>2. CASE k # 1
      <4>1. k \in 2 .. Len(banks) /\ k - 1 \in 1 .. Len(a.banks)
        BY <1>2, <3>2
      <4> QED
        BY <1>2, <4>1 DEF Nested
    <3> QED
      BY <3>1, <3>2
  <2>2. Len(banks) <= n
    BY <1>2 DEF Nested
  <2> QED
    BY <1>3, <2>1, <2>2 DEF Nested
<1> QED
  BY <1>2, <1>3, <1>4 DEF Fits, Fronted, Left, HasAba

\* FedNow's cut leaves 34 characters less a prefix of at most 6 and n codes.
LEMMA CutFits ==
  ASSUME NEW S, NEW a \in AccountsBut(S), NEW n \in Nat, NEW fed,
         Nested(a, n), Left(a, n, fed)
  PROVE  Nested(CutAt(a, 34), n) /\ Left(CutAt(a, 34), n, TRUE)
<1> DEFINE aba == {k \in 1 .. Len(a.banks) : a.banks[k].digits = 9}
           room == 34 - PrefixLength[a.prefix] - 9 * Len(a.banks) - Cardinality(aba)
<1>1. a.banks \in Seq(Banks) /\ a.prefix \in Prefixes /\ a.left \in Int
      /\ Length[a.id] \in Nat
  BY TranslationAssumption DEF AccountsBut
<1>2. Cardinality(aba) = 0
  <2>1. aba = {}
    BY DEF Nested
  <2> QED
    BY <2>1, FS_EmptySet
<1>3. PrefixLength[a.prefix] \in 0 .. 6 /\ Len(a.banks) \in Nat /\ Len(a.banks) <= n
  BY <1>1, PrefixesHaveLength DEF Nested
<1>4. room \in Int /\ room >= 28 - 9 * n
  <2>1. \A p \in 0 .. 6, l \in Nat : l <= n => 34 - p - 9 * l - 0 \in Int
                                          /\ 34 - p - 9 * l - 0 >= 28 - 9 * n
    OBVIOUS
  <2> HIDE DEF aba
  <2> QED
    BY <1>2, <1>3, <2>1
<1>5. CutAt(a, 34) = [a EXCEPT !.left = IF @ > room THEN room ELSE @]
  BY DEF CutAt
<1> HIDE DEF room
<1>6. CutAt(a, 34).banks = a.banks /\ CutAt(a, 34).id = a.id
  BY CutKeepsId
<1>7. CutAt(a, 34).left = IF a.left > room THEN room ELSE a.left
  BY <1>5 DEF AccountsBut
<1> QED
  BY <1>1, <1>4, <1>6, <1>7 DEF Nested, Left

LEMMA FitsOn ==
  ASSUME NEW S, NEW a \in AccountsBut(S), NEW n \in Nat, NEW fed, NEW more \in Nat, NEW then,
         more >= n, fed => then
  PROVE  /\ Nested(a, n) => Nested(a, more)
         /\ Left(a, n, fed) => Left(a, more, then)
         /\ Fits(a, n, fed) => Fits(a, more, then)
<1>1. a.left \in Int /\ Len(a.banks) \in Nat
  BY DEF AccountsBut
<1>2. HasAba(a) => Len(Behind(a).banks) \in Nat
  <2>1. HasAba(a) => Behind(a) \in AccountsBut(S)
    BY BankTakenOff DEF HasAba
  <2> QED
    BY <2>1 DEF AccountsBut
<1>3. Nested(a, n) => Nested(a, more)
  BY <1>1 DEF Nested
<1>4. HasAba(a) /\ Nested(Behind(a), n) => Nested(Behind(a), more)
  BY <1>2 DEF Nested
<1>5. Left(a, n, fed) => Left(a, more, then)
  BY <1>1 DEF Left
<1> QED
  BY <1>3, <1>4, <1>5 DEF Fits, Fronted

LEMMA FitsRead ==
  ASSUME NEW rail \in NativeRails \ {"ACH_NACHA"}, NEW m \in ReadType(rail), NEW n \in Nat,
         NEW fed, MessageFits(rail, m, n, fed)
  PROVE  CanonicalFits(toCanonical(rail, m), n, fed)
<1> SUFFICES ASSUME NEW c, c = toCanonical(rail, m) PROVE CanonicalFits(c, n, fed)
  OBVIOUS
<1>1. \A p \in Prefixes, i \in DOMAIN Length \ Payers :
         /\ Account(p, i) \in AccountsBut(Payers)
         /\ Fits(Account(p, i), n, fed) /\ ~HasAba(Account(p, i))
  BY NewAccount, FreshFits DEF Account
<1>2. \A f \in Placeholders : f \in DOMAIN Length \ Payers
  BY PlaceholdersAreNobodys
<1>3. Unknown \in AccountsBut(Payers) /\ Fits(Unknown, n, fed)
  BY <1>1, <1>2 DEF Unknown, Placeholders, Prefixes
<1>4. ASSUME NEW a, c.alias.value = a, c.creditor.account = a, Fits(a, n, fed),
             c.alias.type # "LLAVE_BREB",
             c.destination.routing # None => c.destination.routing.digits = 9,
             c.destination.ispb = None
      PROVE  CanonicalFits(c, n, fed)
  BY <1>4 DEF CanonicalFits
<1>5. CASE rail = "PIX"
  <2> DEFINE i == m.chave ?? "recv-PMT"
             j == m.chave ?? ""
  <2>1. m.chave \in Names(Payers)
    BY <1>5 DEF ReadType, PixType
  <2>2. i \in DOMAIN Length \ Payers /\ j \in DOMAIN Length \ Payers
    BY <1>2, <2>1 DEF ??, Names, Opt, Placeholders
  <2> HIDE DEF i, j
  <2>3. /\ c.alias.type = "PIX_KEY" /\ c.alias.value = Account("", j)
        /\ c.creditor.account = Account("PIX-", i)
        /\ c.destination.routing = None /\ c.destination.ispb = m.recebedor.ispb
    BY <1>5 DEF toCanonical, pixToCanonical, Party, NoAgent, i, j
  <2>4. /\ Fits(Account("", j), n, fed) /\ Fits(Account("PIX-", i), n, fed)
        /\ ~HasAba(Account("PIX-", i))
    BY <1>1, <2>2 DEF Prefixes
  <2> QED
    BY <1>5, <2>3, <2>4 DEF CanonicalFits, MessageFits
<1>6. CASE rail = "SWIFT_MT103"
  <2> DEFINE b == m.beneficiary
  <2>1. b.name \in Names(Payers)
    BY <1>6 DEF ReadType, SwiftType
  <2>2. /\ b.account # None => Fits(b.account, n, fed)
        /\ b.iban # None => Fits(b.iban, n, fed)
    BY <1>6 DEF MessageFits
  <2>3. b.name # None => Fits(Account("", b.name), n, fed)
    BY <1>1, <2>1 DEF Names, Opt, Prefixes
  <2>4. Fits(creditorAccount(b), n, fed)
    BY <1>3, <2>2, <2>3 DEF creditorAccount, ??
  <2>5. /\ c.alias.value = creditorAccount(b) /\ c.creditor.account = creditorAccount(b)
        /\ c.alias.type \in {"IBAN", "ACCOUNT"}
        /\ c.destination.routing = None /\ c.destination.ispb = None
    BY <1>6 DEF toCanonical, swiftMt103ToCanonical, Party, NoAgent
  <2> HIDE DEF b
  <2> QED
    BY <1>4, <2>4, <2>5
<1>7. CASE rail = "ISO20022_MX"
  <2> DEFINE payee == m.CdtrAcct.IBAN ?? (m.CdtrAcct.Othr ?? Unknown)
  <2>1. Fits(payee, n, fed)
    BY <1>3, <1>7 DEF MessageFits, ??
  <2>2. /\ c.alias.value = payee /\ c.creditor.account = payee
        /\ c.alias.type \in {"IBAN", "ACCOUNT"}
        /\ c.destination.routing = m.CdtrAgt.MmbId /\ c.destination.ispb = None
    BY <1>7 DEF toCanonical, iso20022MxToCanonical, Party
  <2>3. m.CdtrAgt.MmbId # None => m.CdtrAgt.MmbId.digits = 9
    BY <1>7 DEF MessageFits
  <2> HIDE DEF payee
  <2> QED
    BY <1>4, <2>1, <2>2, <2>3
<1>8. CASE rail = "FEDNOW"
  <2> DEFINE payee == At(m.CdtrAgt, m.CdtrAcct)
  <2>1. m.CdtrAcct \in AccountsBut(Payers) /\ m.CdtrAgt \in Banks
    BY <1>8 DEF ReadType, FednowType
  <2>2. Nested(m.CdtrAcct, n) /\ Left(m.CdtrAcct, n, fed) /\ m.CdtrAgt.digits = 9
    BY <1>8 DEF MessageFits
  <2>3. Fits(payee, n, fed)
    BY <2>1, <2>2, AbaFits
  <2>4. /\ c.alias.value = payee /\ c.creditor.account = payee
        /\ c.alias.type = "ABA_ROUTING"
        /\ c.destination.routing = m.CdtrAgt /\ c.destination.ispb = None
    BY <1>8 DEF toCanonical, fednowToCanonical, Party, NoAgent
  <2> HIDE DEF payee
  <2> QED
    BY <1>4, <2>2, <2>3, <2>4
<1>9. CASE rail = "BRE_B"
  <2> DEFINE p == m.beneficiario
             id == IF p.nit # None THEN Account("", p.nit)
                   ELSE IF p.cc # None THEN Account("", p.cc) ELSE p.numeroCuenta
             acct == id ?? m.llave
  <2>1. /\ p \in BrebSide(Payers) /\ m.llave \in AccountsBut(Payers)
    BY <1>9 DEF ReadType, BrebType
  <2>2. /\ p.nit \in Names(Payers) /\ p.cc \in Names(Payers) /\ p.codigoEntidad \in Banks
        /\ p.numeroCuenta \in Opt(AccountsBut(Payers))
    BY <2>1 DEF BrebSide
  <2>3. /\ p.codigoEntidad.digits # 9 /\ Nested(m.llave, n - 1) /\ Left(m.llave, n, fed)
        /\ p.numeroCuenta # None => Nested(p.numeroCuenta, n - 1) /\ Left(p.numeroCuenta, n, fed)
    BY <1>9 DEF MessageFits
  <2>4. n - 1 \in Nat
    <3>1. Len(m.llave.banks) \in Nat /\ Len(m.llave.banks) <= n - 1
      BY <2>1, <2>3 DEF Nested, AccountsBut
    <3> QED
      BY <3>1
  <2>5. \A i \in DOMAIN Length \ Payers :
           /\ Account("", i) \in AccountsBut(Payers)
           /\ Nested(Account("", i), n - 1) /\ Left(Account("", i), n, fed)
    BY <2>4, NewAccount, FreshFits DEF Account, Prefixes
  <2>6. p.nit # None => p.nit \in DOMAIN Length \ Payers
    BY <2>2 DEF Names, Opt
  <2>7. p.cc # None => p.cc \in DOMAIN Length \ Payers
    BY <2>2 DEF Names, Opt
  <2>8. acct \in AccountsBut(Payers) /\ Nested(acct, n - 1) /\ Left(acct, n, fed)
    BY <2>1, <2>2, <2>3, <2>5, <2>6, <2>7 DEF ??, Opt
  <2>9. /\ c.alias.value = m.llave /\ c.alias.type = "LLAVE_BREB"
        /\ c.creditor.account = At(p.codigoEntidad, acct)
        /\ c.destination.routing = None /\ c.destination.ispb = p.codigoEntidad
    BY <1>9 DEF toCanonical, brebToCanonical, Party, NoAgent
  <2> HIDE DEF acct
  <2>10. /\ Fits(At(p.codigoEntidad, acct), n, fed) /\ ~HasAba(At(p.codigoEntidad, acct))
    BY <2>2, <2>3, <2>8, EntityFits
  <2>11. Nested(m.llave, n) /\ ~HasAba(m.llave)
    <3>1. Len(m.llave.banks) \in Nat
      BY <2>1 DEF AccountsBut
    <3>2. Nested(m.llave, n)
      BY <2>3, <3>1 DEF Nested
    <3> QED
      BY <2>1, <3>2, NoAbaWhenNested
  <2> QED
    BY <2>3, <2>9, <2>10, <2>11 DEF CanonicalFits, Fits, Fronted
<1> QED
  BY <1>5, <1>6, <1>7, <1>8, <1>9 DEF NativeRails, Rails

LEMMA FitsRequested ==
  ASSUME NEW rail \in ApiRails, NEW req \in RequestType, NEW mapping \in Mappings,
         IsFresh(req.creditor.alias), NEW n \in Nat, NEW fed
  PROVE  CanonicalFits(requestToCanonical(rail, req, mapping), n, fed)
<1> SUFFICES ASSUME NEW c, c = requestToCanonical(rail, req, mapping)
             PROVE  CanonicalFits(c, n, fed)
  OBVIOUS
<1> DEFINE alias == req.creditor.alias
<1>1. alias \in AccountsBut(Payers) /\ Fits(alias, n, fed) /\ ~HasAba(alias)
  BY FreshFits DEF RequestType, IsFresh
<1>2. \A p : Fits(Strip(alias, p), n, fed) /\ ~HasAba(Strip(alias, p))
  BY <1>1, StripFits
<1>3. \/ applyTransformation(alias, mapping) = alias
      \/ \E p : applyTransformation(alias, mapping) = Strip(alias, p)
  BY DEF applyTransformation
<1>4. Fits(applyTransformation(alias, mapping), n, fed)
  BY <1>1, <1>2, <1>3
<1>5. /\ c.creditor.account = alias
      /\ c.alias.value = applyTransformation(alias, mapping)
         \/ \E p : c.alias.value = Strip(alias, p)
      /\ rail = "BRE_B" => c.alias.value = Strip(alias, {"BREB-"})
      /\ rail # "BRE_B" => c.alias.type # "LLAVE_BREB"
      /\ c.destination = NoAgent
  <2>1. CASE rail = "PIX"
    BY <2>1 DEF requestToCanonical, pixRequestToCanonical, Party
  <2>2. CASE rail = "SPEI"
    BY <2>2 DEF requestToCanonical, speiToCanonical, Party
  <2>3. CASE rail = "BRE_B"
    BY <2>3 DEF requestToCanonical, brebRequestToCanonical, Party
  <2> QED
    BY <2>1, <2>2, <2>3 DEF ApiRails
<1> HIDE DEF alias
<1> QED
  BY <1>1, <1>2, <1>4, <1>5 DEF CanonicalFits, NoAgent

LEMMA FitsWritten ==
  ASSUME NEW rail \in Rails \ {"ACH_NACHA"}, NEW c \in Canonicals, NEW n \in Nat, NEW fed,
         CanonicalFits(c, n, fed), NEW m, m = fromCanonical(rail, c),
         NEW more, more = n + (IF rail = "BRE_B" THEN 1 ELSE 0),
         NEW then, fed => then, rail = "FEDNOW" => then
  PROVE  /\ Left(Credited(rail, m), more, then) /\ Credited(rail, m) \in AccountsBut(Payers)
         /\ rail \notin {"PIX", "SPEI"} => MessageFits(rail, m, more, then)
<1> DEFINE alias == c.alias.value
           account == c.creditor.account
<1>1. alias \in AccountsBut(Payers) /\ account \in AccountsBut(Payers)
      /\ c.destination \in Agents
  BY CanonicalParts
<1>2. /\ Fits(alias, n, fed) /\ Fits(account, n, fed)
      /\ Fits(alias, more, then) /\ Fits(account, more, then)
  BY <1>1, FitsOn DEF CanonicalFits
<1>3. CASE rail \in {"PIX", "SPEI"}
  <2>1. m.key = c.alias.value
    BY <1>3 DEF fromCanonical, canonicalToSpei, canonicalToPix
  <2> QED
    BY <1>1, <1>2, <1>3, <2>1 DEF Credited, Fits
<1>4. CASE rail = "SWIFT_MT103"
  <2> DEFINE stripped == Strip(account, {"PIX-", "SPEI-", "SWIFT-"})
             iban == IsIban(account)
  <2>1. stripped \in AccountsBut(Payers) /\ Fits(stripped, more, then)
    <3>1. more \in Nat
      OBVIOUS
    <3> QED
      BY <1>1, <1>2, <3>1, PrefixTakenOff, StripFits
  <2>2. /\ m.beneficiary.account = IF iban THEN None ELSE stripped
        /\ m.beneficiary.iban = IF iban THEN account ELSE None
    BY <1>4 DEF fromCanonical, canonicalToSwiftMt103
  <2> HIDE DEF stripped, iban
  <2>3. stripped # None /\ account # None
    BY <1>1, <2>1, AccountsAreTyped
  <2>4. /\ MessageFits(rail, m, more, then)
        /\ Credited(rail, m) \in {stripped, account}
    BY <1>2, <1>4, <2>1, <2>2, <2>3 DEF MessageFits, Credited, ??
  <2> QED
    BY <1>1, <1>2, <1>4, <2>1, <2>4 DEF Fits
<1>5. CASE rail = "ISO20022_MX"
  <2>1. m.CdtrAcct = cdtrAcct(c) /\ m.CdtrAgt.MmbId = c.destination.routing
    BY <1>5 DEF fromCanonical, canonicalToIso20022Mx
  <2>2. alias # None
    BY <1>1, AccountsAreTyped
  <2>3. \/ m.CdtrAcct.IBAN = alias /\ m.CdtrAcct.Othr = None
        \/ m.CdtrAcct.IBAN = None /\ m.CdtrAcct.Othr = alias
    BY <2>1, <2>2 DEF cdtrAcct, buildAccount, ??
  <2>4. c.destination.routing # None => c.destination.routing.digits = 9
    BY DEF CanonicalFits
  <2>5. Credited(rail, m) = alias
    BY <1>5, <2>2, <2>3 DEF Credited, ??
  <2> HIDE DEF alias
  <2> QED
    BY <1>1, <1>2, <1>5, <2>1, <2>3, <2>4, <2>5 DEF MessageFits, Fits
<1>6. CASE rail = "FEDNOW"
  <2> DEFINE bank == c.destination.routing ?? DefaultAba
             payee == extractRtnAndAccount(alias, bank, account)
  <2>1. bank \in Banks /\ bank.digits = 9
    BY <1>1, AgentParts, KnownBanks DEF ??, Opt, CanonicalFits, DefaultAba, Aba
  <2>2. /\ payee.account \in AccountsBut(Payers) /\ payee.bank \in Banks
        /\ payee.bank.digits = 9
        /\ Nested(payee.account, n) /\ Left(payee.account, n, fed)
    <3>1. CASE HasAba(alias)
      <4>1. payee.bank = Head(alias.banks)
            /\ payee.account = Strip(Behind(alias), {"PIX-", "SPEI-"})
        BY <3>1 DEF extractRtnAndAccount
      <4>2. /\ Behind(alias) \in AccountsBut(Payers) /\ Nested(Behind(alias), n)
            /\ Left(Behind(alias), n, fed)
        BY <1>1, <1>2, <3>1, BehindFits DEF HasAba
      <4>3. Head(alias.banks) \in Banks /\ Head(alias.banks).digits = 9
        BY <1>1, <3>1, BankTakenOff DEF HasAba
      <4> HIDE DEF payee
      <4> QED
        BY <4>1, <4>2, <4>3, PrefixTakenOff, StripFits
    <3>2. CASE ~HasAba(alias)
      <4>1. payee.bank = bank /\ payee.account = Strip(account, {"PIX-", "SPEI-"})
        BY <3>2 DEF extractRtnAndAccount
      <4>2. Nested(account, n) /\ Left(account, n, fed)
        BY <1>2, <3>2 DEF Fits, Fronted, CanonicalFits
      <4> HIDE DEF payee, bank
      <4> QED
        BY <1>1, <2>1, <4>1, <4>2, PrefixTakenOff, StripFits
    <3> QED
      BY <3>1, <3>2
  <2>3. m.CdtrAcct = CutAt(payee.account, 34) /\ m.CdtrAgt = payee.bank
    BY <1>6 DEF fromCanonical, canonicalToFednow
  <2> HIDE DEF payee
  <2>4. Nested(m.CdtrAcct, n) /\ Left(m.CdtrAcct, n, TRUE)
    BY <2>2, <2>3, CutFits
  <2>5. m.CdtrAcct \in AccountsBut(Payers)
    BY <2>2, <2>3, CutKeepsId
  <2>6. Left(m.CdtrAcct, more, then) /\ more = n
    BY <1>6, <2>4 DEF Left
  <2>7. /\ At(m.CdtrAgt, m.CdtrAcct).id = m.CdtrAcct.id
        /\ At(m.CdtrAgt, m.CdtrAcct).left = m.CdtrAcct.left
    BY <2>5 DEF At, AccountsBut
  <2>8. Left(Credited(rail, m), more, then) /\ Credited(rail, m) \in AccountsBut(Payers)
    BY <1>6, <2>2, <2>3, <2>5, <2>6, <2>7, BankPutInFront DEF Credited, Left
  <2> QED
    BY <1>6, <2>2, <2>3, <2>4, <2>6, <2>8 DEF MessageFits
<1>7. CASE rail = "BRE_B"
  <2> DEFINE bare == IF HasBank(account) THEN Behind(account) ELSE account
             key == IF c.alias.type = "LLAVE_BREB" THEN alias ELSE bare
  <2>1. more = n + 1 /\ more - 1 = n /\ (fed => then)
    BY <1>7
  <2>2. bare \in AccountsBut(Payers) /\ Nested(bare, n) /\ Left(bare, n, fed)
    <3>1. CASE HasBank(account)
      BY <1>1, <1>2, <3>1, BehindFits
    <3>2. CASE ~HasBank(account)
      BY <1>1, <1>2, <3>2 DEF Fits, Fronted, HasAba
    <3> QED
      BY <3>1, <3>2
  <2>3. key \in AccountsBut(Payers) /\ Nested(key, n) /\ Left(key, n, fed)
    <3>1. CASE c.alias.type = "LLAVE_BREB"
      BY <1>1, <1>2, <3>1 DEF CanonicalFits, Fits, Fronted
    <3>2. CASE c.alias.type # "LLAVE_BREB"
      BY <2>2, <3>2
    <3> QED
      BY <3>1, <3>2
  <2>4. /\ m.llave = Strip(key, {"BREB-"})
        /\ m.beneficiario.numeroCuenta = bare
        /\ m.beneficiario.codigoEntidad = c.destination.ispb ?? SimulatedEntity
    BY <1>7 DEF fromCanonical, canonicalToBreb
  <2>5. m.beneficiario.codigoEntidad.digits # 9
    BY <2>4 DEF CanonicalFits, ??, SimulatedEntity, Entity
  <2> HIDE DEF bare, key
  <2>6. Nested(m.llave, n) /\ Left(m.llave, n, fed) /\ m.llave \in AccountsBut(Payers)
    BY <2>3, <2>4, StripFits, PrefixTakenOff
  <2>7. Left(m.llave, more, then) /\ Left(bare, more, then)
    BY <2>1, <2>2, <2>6, FitsOn
  <2>8. Credited(rail, m) = m.llave
    BY <1>7 DEF Credited
  <2> QED
    BY <1>7, <2>1, <2>2, <2>4, <2>5, <2>6, <2>7, <2>8 DEF MessageFits
<1> QED
  BY <1>3, <1>4, <1>5, <1>6, <1>7 DEF Rails

LEMMA FitsFirst ==
  ASSUME NEW rail \in NativeRails \ {"ACH_NACHA"}, NEW m \in Messages(rail),
         NEW n \in Nat, rail = "BRE_B" => n >= 1, NEW fed
  PROVE  MessageFits(rail, m, n, fed)
<1>1. \A f \in Fields :
         /\ Account("", Payee[f]) \in AccountsBut(Payers) /\ Payee[f] \in DOMAIN Length
         /\ Account("", Payee[f]).banks = <<>>
         /\ Account("", Payee[f]).left = Length[Account("", Payee[f]).id]
  BY PartyFields DEF Account, Prefixes
<1>2. \A f \in Fields, k \in Nat :
         /\ Fits(Account("", Payee[f]), k, fed) /\ Nested(Account("", Payee[f]), k)
         /\ Left(Account("", Payee[f]), k, fed)
  BY <1>1, FreshFits
<1>3. FarBank.digits = 9 /\ SimulatedEntity.digits # 9 /\ Entity("00000007").digits # 9
  BY DEF FarBank, Aba, SimulatedEntity, Entity
<1>4. CASE rail = "PIX"
  <2>1. m \in PixMessages
    BY <1>4 DEF Messages
  <2>2. m.recebedor.ispb \in Maybe(SimulatedEntity)
    BY <2>1, PixParties DEF PixPayees
  <2> QED
    BY <1>3, <1>4, <2>2 DEF MessageFits, Maybe
<1>5. CASE rail = "SWIFT_MT103"
  <2>1. /\ m.beneficiary.account \in Maybe(Account("", Payee.account))
        /\ m.beneficiary.iban \in Maybe(Account("", Payee.iban))
    BY <1>5 DEF Messages, SwiftMessages
  <2> QED
    BY <1>2, <1>5, <2>1 DEF MessageFits, Maybe, Fields
<1>6. CASE rail = "ISO20022_MX"
  <2>1. /\ m.CdtrAcct \in MxAccounts(Payee) \cup {MxAccountAtBank(Payee)}
        /\ m.CdtrAgt.MmbId \in Maybe(FarBank)
    BY <1>6 DEF Messages, MxMessages
  <2>2. /\ m.CdtrAcct.IBAN = None \/ m.CdtrAcct.IBAN = Account("", Payee.iban)
        /\ \/ m.CdtrAcct.Othr = None \/ m.CdtrAcct.Othr = Account("", Payee.account)
           \/ m.CdtrAcct.Othr = At(FarBank, Account("", Payee.account))
    BY <2>1, MxAccountParts
  <2>3. Fits(At(FarBank, Account("", Payee.account)), n, fed)
    BY <1>1, <1>2, FarBankIsAba, AbaFits DEF Fields
  <2> QED
    BY <1>2, <1>3, <1>6, <2>1, <2>2, <2>3 DEF MessageFits, Maybe, Fields
<1>7. CASE rail = "FEDNOW"
  <2>1. /\ m.CdtrAgt = FarBank
        /\ m.CdtrAcct \in {Account("", Payee.account), Account("", Payee.clabe)}
    BY <1>7 DEF Messages, FednowMessages
  <2> QED
    BY <1>2, <1>3, <1>7, <2>1 DEF MessageFits, Fields
<1>8. CASE rail = "BRE_B"
  <2>1. /\ m.llave = Account("", Payee.key) /\ m.beneficiario.codigoEntidad = Entity("00000007")
        /\ m.beneficiario.numeroCuenta \in Maybe(Account("", Payee.account))
    BY <1>8 DEF Messages, BrebMessages, BrebSides
  <2>2. n - 1 \in Nat
    BY <1>8
  <2> QED
    BY <1>2, <1>3, <1>8, <2>1, <2>2 DEF MessageFits, Maybe, Fields
<1> QED
  BY <1>4, <1>5, <1>6, <1>7, <1>8 DEF NativeRails, Rails

LEMMA PathCounts ==
  ASSUME NEW p \in Seq(Rails), NEW rail \in Rails
  PROVE  /\ Stays(p) \in Nat
         /\ Stays(Append(p, rail)) = Stays(p) + (IF rail = "BRE_B" THEN 1 ELSE 0)
         /\ p # <<>> => /\ ByFednow(Append(p, rail)) <=> ByFednow(p) \/ rail = "FEDNOW"
                        /\ ByAch(Append(p, rail)) <=> ByAch(p) \/ rail = "ACH_NACHA"
<1> DEFINE q == Append(p, rail)
           before == {k \in 1 .. Len(p) : p[k] = "BRE_B"}
           after == {k \in 1 .. Len(q) : q[k] = "BRE_B"}
<1>1. /\ Len(p) \in Nat /\ Len(q) = Len(p) + 1 /\ q[Len(p) + 1] = rail
      /\ \A k \in 1 .. Len(p) : q[k] = p[k]
  OBVIOUS
<1> HIDE DEF q
<1>2. IsFiniteSet(before) /\ Cardinality(before) \in Nat
  <2>1. IsFiniteSet(1 .. Len(p))
    BY <1>1, FS_Interval
  <2> QED
    BY <2>1, FS_Subset, FS_CardinalityType
<1>3. after = before \cup (IF rail = "BRE_B" THEN {Len(p) + 1} ELSE {})
  BY <1>1
<1>4. Len(p) + 1 \notin before
  BY <1>1
<1>5. Cardinality(after) = Cardinality(before) + (IF rail = "BRE_B" THEN 1 ELSE 0)
  <2> HIDE DEF before, after
  <2>1. CASE rail = "BRE_B"
    BY <1>2, <1>3, <1>4, <2>1, FS_AddElement
  <2>2. CASE rail # "BRE_B"
    <3>1. after = before
      BY <1>3, <2>2
    <3> QED
      BY <1>2, <2>2, <3>1
  <2> QED
    BY <2>1, <2>2
<1>6. ASSUME p # <<>>
      PROVE  /\ ByFednow(q) <=> ByFednow(p) \/ rail = "FEDNOW"
             /\ ByAch(q) <=> ByAch(p) \/ rail = "ACH_NACHA"
  <2>1. Len(p) >= 1
    BY <1>6
  <2> QED
    BY <1>1, <2>1 DEF ByFednow, ByAch
<1> QED
  BY <1>2, <1>5, <1>6 DEF Stays, q

FitsInv ==
    ~ByAch(path) =>
        /\ AtHand => CanonicalFits(canonical, Stays(path), ByFednow(path))
        /\ Onward =>
              /\ Left(Credited(Current, message), Stays(path), ByFednow(path))
              /\ Credited(Current, message) \in AccountsBut(Payers)
              /\ Current \notin {"PIX", "SPEI"} =>
                    MessageFits(Current, message, Stays(path), ByFednow(path))

LEMMA FitsStep ==
  ASSUME PathInv, FitsInv, [Next]_vars
  PROVE  FitsInv'
<1> USE DEF PathInv
<1>1. ASSUME NEW r, NEW rail, NEW m, Submit(r, rail, m) PROVE FitsInv'
  BY <1>1 DEF Submit, FitsInv, AtHand, Onward
<1>2. ASSUME SubmitPayment \/ SubmitRequest \/ SubmitMessage PROVE FitsInv'
  BY <1>1, <1>2 DEF SubmitPayment, SubmitRequest, SubmitMessage
<1>3. ASSUME NEW c, stage = "received", Accept(c),
             ~ByAch(path) => CanonicalFits(c, Stays(path), ByFednow(path))
      PROVE  FitsInv'
  <2>1. path' = path /\ canonical' = c /\ stage' \in {"canonical", "rejected"}
    BY <1>3 DEF Accept
  <2>2. /\ ByAch(path') <=> ByAch(path)
        /\ CanonicalFits(canonical', Stays(path'), ByFednow(path'))
              <=> CanonicalFits(c, Stays(path), ByFednow(path))
    BY <2>1
  <2> QED
    BY <1>3, <2>1, <2>2 DEF FitsInv, Onward, AtHand
<1>4. ASSUME path \in Seq(Rails), path # <<>> PROVE Stays(path) \in Nat
  BY <1>4, PathCounts DEF Rails
<1>5. ASSUME NEW mapping \in Mappings, ReadRequest(mapping) PROVE FitsInv'
  <2> DEFINE c == requestToCanonical(Current, message, mapping)
  <2>1. stage = "received" /\ "creditor" \in DOMAIN message /\ Accept(c)
    BY <1>5 DEF ReadRequest, IsRequest
  <2>2. message \in RequestType /\ Current \in ApiRails /\ Len(path) = 1
        /\ path \in Seq(Rails) /\ path # <<>>
    BY <2>1, NativeIsNoRequest DEF FlowInv
  <2>3. IsFresh(message.creditor.alias)
    BY <2>1, <2>2 DEF FirstInv, Way, IsRequest
  <2>4. CanonicalFits(c, Stays(path), ByFednow(path))
    BY <1>4, <2>2, <2>3, FitsRequested
  <2> HIDE DEF c
  <2> QED
    BY <1>3, <2>1, <2>4
<1>6. ASSUME MappingUnavailable PROVE FitsInv'
  BY <1>6 DEF MappingUnavailable, FitsInv, AtHand, Onward
<1>7. ASSUME ReadMessage PROVE FitsInv'
  <2> DEFINE c == toCanonical(Current, message)
  <2>1. stage = "received" /\ "creditor" \notin DOMAIN message /\ Accept(c)
    BY <1>7 DEF ReadMessage, IsRequest
  <2>2. message \in ReadType(Current) /\ Current \in NativeRails
        /\ path \in Seq(Rails) /\ path # <<>>
    BY <2>1 DEF FlowInv
  <2>3. Len(path) \in Nat /\ Len(path) >= 1
    BY <2>2, PathLength
  <2>4. ASSUME ~ByAch(path) PROVE MessageFits(Current, message, Stays(path), ByFednow(path))
    <3>1. Current \in NativeRails \ {"ACH_NACHA"}
      BY <2>2, <2>3, <2>4 DEF ByAch, Current
    <3>2. CASE Len(path) = 1
      <4>1. message \in Messages(Current)
        BY <2>1, <3>2 DEF FirstInv, Way, IsRequest, Origin, Current
      <4>2. Current = "BRE_B" => Stays(path) >= 1
        <5>1. ASSUME Current = "BRE_B"
              PROVE  Cardinality({k \in 1 .. Len(path) : path[k] = "BRE_B"}) = 1
          <6>1. {k \in 1 .. Len(path) : path[k] = "BRE_B"} = {1}
            BY <3>2, <5>1 DEF Current
          <6> QED
            BY <6>1, FS_Singleton
        <5> QED
          BY <5>1 DEF Stays
      <4> QED
        BY <1>4, <2>2, <3>1, <4>1, <4>2, FitsFirst
    <3>3. CASE Len(path) # 1
      <4>1. \A l \in Nat : l >= 1 /\ l # 1 => l > 1
        OBVIOUS
      <4>2. Len(path) > 1
        BY <2>3, <3>3, <4>1
      <4>3. Onward /\ Current \notin {"PIX", "SPEI"}
        BY <2>1, <2>2, <4>2 DEF FirstInv, Onward, NativeRails
      <4> QED
        BY <2>4, <4>3 DEF FitsInv
    <3> QED
      BY <3>2, <3>3
  <2>5. ~ByAch(path) => CanonicalFits(c, Stays(path), ByFednow(path))
    <3>1. ~ByAch(path) => Current \in NativeRails \ {"ACH_NACHA"}
      BY <2>2, <2>3 DEF ByAch, Current
    <3> QED
      BY <1>4, <2>2, <2>4, <3>1, FitsRead
  <2> HIDE DEF c
  <2> QED
    BY <1>3, <2>1, <2>5
<1>8. ASSUME Normalize PROVE FitsInv'
  <2>1. /\ stage = "canonical" /\ stage' = "normalized"
        /\ canonical' = normalizeCurrency(canonical)
        /\ path' = path /\ canonical \in Canonicals
    BY <1>8 DEF Normalize, FlowInv
  <2>2. /\ canonical'.alias = canonical.alias /\ canonical'.creditor = canonical.creditor
        /\ canonical'.destination = canonical.destination
    BY <2>1 DEF normalizeCurrency, Canonicals
  <2>3. \A n, fed : CanonicalFits(canonical', n, fed) <=> CanonicalFits(canonical, n, fed)
    BY <2>2 DEF CanonicalFits
  <2> QED
    BY <2>1, <2>3 DEF FitsInv, AtHand, Onward
<1>9. ASSUME NEW rail \in Rails, Emit(rail) PROVE FitsInv'
  <2>1. /\ AtHand /\ stage' = "emitted" /\ path' = Append(path, rail)
        /\ message' = fromCanonical(rail, canonical) /\ canonical \in Canonicals
        /\ path \in Seq(Rails) /\ path # <<>>
    BY <1>9 DEF Emit, AtHand, FlowInv
  <2>2. Current' = rail
    BY <2>1, PathGrows DEF Current
  <2>3. /\ Stays(path') = Stays(path) + (IF rail = "BRE_B" THEN 1 ELSE 0)
        /\ ByFednow(path') <=> ByFednow(path) \/ rail = "FEDNOW"
        /\ ByAch(path') <=> ByAch(path) \/ rail = "ACH_NACHA"
        /\ Stays(path) \in Nat
    BY <2>1, PathCounts
  <2>4. ASSUME ~ByAch(path')
        PROVE  /\ Left(Credited(rail, message'), Stays(path'), ByFednow(path'))
               /\ Credited(rail, message') \in AccountsBut(Payers)
               /\ rail \notin {"PIX", "SPEI"} =>
                     MessageFits(rail, message', Stays(path'), ByFednow(path'))
    <3>1. /\ CanonicalFits(canonical, Stays(path), ByFednow(path))
          /\ rail \in Rails \ {"ACH_NACHA"}
      BY <2>1, <2>3, <2>4 DEF FitsInv
    <3> QED
      BY <2>1, <2>3, <3>1, FitsWritten
  <2>5. Credited(Current, message)' = Credited(rail, message')
    BY <2>2 DEF Credited
  <2>6. MessageFits(Current, message, Stays(path), ByFednow(path))'
           <=> MessageFits(rail, message', Stays(path'), ByFednow(path'))
    BY <2>2
  <2> QED
    BY <2>1, <2>2, <2>4, <2>5, <2>6 DEF FitsInv, AtHand
<1>10. ASSUME (stage = "emitted" /\ stage' = "received") \/ stage' = stage,
              UNCHANGED <<path, message, canonical>>
       PROVE  FitsInv'
  <2>1. Current' = Current /\ Credited(Current, message)' = Credited(Current, message)
    BY <1>10 DEF Current, Credited
  <2> QED
    BY <1>10, <2>1 DEF FitsInv, AtHand, Onward
<1>11. ASSUME HandIn PROVE FitsInv'
  BY <1>10, <1>11 DEF HandIn
<1>12. CASE UNCHANGED vars
  BY <1>10, <1>12 DEF vars
<1> QED
  BY <1>2, <1>5, <1>6, <1>7, <1>8, <1>9, <1>11, <1>12 DEF Next

(* Only ACH, and FedNow with more than 34 characters before it, cut an     *)
(* account: brebToCanonical puts one code in front for each stay on Bre-B, *)
(* canonicalToBreb takes one away, and no number of an ABA is left inside. *)
THEOREM AccountsWhole == Spec => []AccountIsWhole
<1>1. Init => FitsInv
  BY DEF Init, FitsInv, AtHand, Onward
<1>2. PathInv /\ FitsInv /\ [Next]_vars => FitsInv'
  BY FitsStep
<1>3. PathInv /\ FitsInv => AccountIsWhole
  <2> SUFFICES ASSUME PathInv, FitsInv, stage = "emitted",
                      Origin # "ACH_NACHA", ~Passed("ACH_NACHA"),
                      NEW credited, credited = Credited(Current, message),
                      credited.left < Length[credited.id]
               PROVE  Passed("FEDNOW") /\ Length[credited.id] + 6 + 9 * TimesOn("BRE_B") > 34
    BY DEF AccountIsWhole
  <2>1. path \in Seq(Rails) /\ path # <<>> /\ message \in WrittenType(Current)
        /\ Current \in Rails
    <3>1. path \in Seq(Rails) /\ path # <<>> /\ message \in WrittenType(Current)
      BY DEF PathInv, FlowInv
    <3> QED
      BY <3>1, PathLength DEF Current
  <2>2. ~ByAch(path)
    BY <2>1, PathLength DEF ByAch, Passed, Origin
  <2>3. /\ Stays(path) \in Nat /\ Stays(path) = TimesOn("BRE_B")
        /\ ByFednow(path) <=> Passed("FEDNOW")
    BY <2>1, PathCounts DEF Stays, TimesOn, ByFednow, Passed
  <2>4. Left(credited, Stays(path), ByFednow(path))
    BY <2>2 DEF FitsInv, Onward
  <2>5. credited \in Accounts
    BY <2>2, AccountsAreTyped DEF FitsInv, Onward
  <2>6. credited.left \in Int /\ Length[credited.id] \in Nat
    BY <2>5, TranslationAssumption DEF Accounts
  <2>7. ByFednow(path) /\ credited.left >= 28 - 9 * Stays(path)
    <3>1. credited.left >= Length[credited.id]
             \/ (ByFednow(path) /\ credited.left >= 28 - 9 * Stays(path))
      BY <2>4, Zenon DEF Left
    <3>2. ~(credited.left >= Length[credited.id])
      BY <2>6
    <3> QED
      BY <3>1, <3>2
  <2>8. Passed("FEDNOW") /\ Stays(path) \in Nat /\ Stays(path) = TimesOn("BRE_B")
    BY <2>3, <2>7
  <2>9. \A left \in Int, whole, n \in Nat :
           left < whole /\ left >= 28 - 9 * n => whole + 6 + 9 * n > 34
    OBVIOUS
  <2> QED
    BY <2>6, <2>7, <2>8, <2>9
<1> QED
  BY <1>1, <1>2, <1>3, PathKept, PTL DEF Spec

(* Both: the payee is credited, and to his whole account.                  *)
THEOREM PayeeNamed == Spec => []PayeeIsNamed
<1>1. PayeeIsCredited /\ AccountIsWhole <=> PayeeIsNamed
  BY DEF PayeeIsNamed
<1> QED
  BY <1>1, PayeeCredited, AccountsWhole, PTL
=============================================================================
