-------------------------- MODULE TranslationFlow --------------------------
(***************************************************************************)
(* What happens to one payment between a rail's message and another's:     *)
(* POST /payments reads the form of a payment, normalizes its currency and *)
(* emits the message of the rail it is routed to; POST /translate reads a  *)
(* rail's message and emits another rail's.  A message that was emitted    *)
(* can be handed in to POST /translate again, so a payment may cross       *)
(* several rails (MaxLegs).                                                *)
(***************************************************************************)
EXTENDS Translation

CONSTANTS
    Payer,      \* the identifiers of the one who pays: name, account, ...
    Payee,      \* and of the one who is paid
    Amounts,    \* the amounts payments are made of
    MaxLegs     \* bound: how many rails one payment is sent on to

VARIABLES
    route,      \* by which endpoint it came: "payments" or "translate"
    path,       \* the rails whose message it has been
    stage,      \* "idle", "received", "canonical", "normalized", "emitted", "rejected"
    first,      \* the message it came as
    message,    \* the message it is now
    canonical   \* what the message was last read as

vars == <<route, path, stage, first, message, canonical>>

Fields == {"name", "account", "iban", "clabe", "key", "person", "company"}
Payers == {Payer[f] : f \in Fields}
Payees == {Payee[f] : f \in Fields}
Placeholders == {"UNKNOWN", "Unknown", "acc-PMT", "recv-PMT", "", "1234567890",
                 "BENEFICIARY", "MIPIT", "REMITENTE", "BENEFICIARIO"}

\* No party is called by what a translator writes where an identifier is missing.
ASSUME FlowAssumption ==
    /\ Payers \cap Payees = {}
    /\ (Payers \cup Payees) \cap Placeholders = {}
    /\ Payers \cup Payees \cup Placeholders \subseteq DOMAIN Length
    /\ Amounts \subseteq Nat
    /\ MaxLegs \in Nat \ {0}

Current == path[Len(path)]

----------------------------------------------------------------------------
(* What is handed in *)

Maybe(x) == {None, x}

ApiRails == {"PIX", "SPEI", "BRE_B"}

\* A CreatePaymentRequest.  The schema of POST /payments wants a prefix and
\* fills in the currency; POST /translate takes any alias.
Aliases(p, r) ==
    {Account("PIX-", p.key), Account("SPEI-", p.clabe), Account("BREB-", p.key)}
        \cup IF r = "payments" THEN {} ELSE {Account("CLABE-", p.clabe), Account("", p.clabe)}

Requests(r) ==
    [amount : Amounts \ {0},
     currency : {"BRL", "MXN", "EUR"} \cup (IF r = "payments" THEN {"USD"} ELSE {None}),
     debtor : [name : Maybe(Payer.name), alias : Aliases(Payer, r)],
     creditor : [name : Maybe(Payee.name), alias : Aliases(Payee, r)]]

\* inferRail, for aliases with a prefix
inferRail(alias) == CASE alias.prefix = "PIX-" -> "PIX"
                      [] alias.prefix = "SPEI-" -> "SPEI"
                      [] alias.prefix = "BREB-" -> "BRE_B"

NearBank == Aba("091000019")
FarBank == Aba("111000025")

PixMessages ==
    [valor : Maybe(1000) \cup Amounts, chave : Maybe(Payee.key),
     pagador : [nome : {Payer.name}, cpf : Maybe(Payer.person), ispb : {SimulatedEntity},
                numero : Maybe(Account("", Payer.account))],
     recebedor : [nome : Maybe(Payee.name), cpf : Maybe(Payee.person),
                  ispb : Maybe(SimulatedEntity)]]

SwiftMessages ==
    [amount : Amounts, currency : {"USD", "EUR"},
     ordering : [account : Maybe(Account("", Payer.account)), name : Maybe(Payer.name),
                 bic : {"OCBIC"}],
     orderingInstitution : Maybe("OIBIC"), accountWithInstitution : {"CIBIC"},
     beneficiary : [account : Maybe(Account("", Payee.account)),
                    iban : Maybe(Account("", Payee.iban)), name : Maybe(Payee.name)]]

MxAccounts(p) ==
    {[IBAN |-> Account("", p.iban), Othr |-> None], [IBAN |-> None, Othr |-> Account("", p.account)],
     [IBAN |-> None, Othr |-> None]}

MxAccountAtBank(p) == [IBAN |-> None, Othr |-> At(FarBank, Account("", p.account))]

MxMessages ==
    [IntrBkSttlmAmt : Amounts, Ccy : {"USD", "EUR"}, InstdAmt : {None, 0, 2000},
     XchgRate : Maybe(<<2, 1>>),
     DbtrAgt : [BICFI : {"OIBIC"}, MmbId : {None}],
     CdtrAgt : [BICFI : {None}, MmbId : Maybe(FarBank)],
     Dbtr : {Payer.name}, Cdtr : {Payee.name}, DbtrAcct : MxAccounts(Payer),
     CdtrAcct : MxAccounts(Payee) \cup {MxAccountAtBank(Payee)}]

\* The amount is in cents; an account number has up to 17 characters.
AchMessages ==
    [amount : {Cents(a) : a \in Amounts},
     originatingDfi : {NearBank}, routingTransit : {FarBank},
     account : {Account("", Payee.account), CutAt(Account("", Payee.iban), 17)},
     individualName : {Payee.name}, companyName : {Payer.name}, companyId : {Payer.person},
     originator : {[name |-> Payer.name, account |-> Account("", Payer.account),
                    taxId |-> Payer.person],
                   [name |-> None, account |-> None, taxId |-> None]}]

FednowMessages ==
    [IntrBkSttlmAmt : Amounts, DbtrAgt : {NearBank}, CdtrAgt : {FarBank},
     Dbtr : Maybe(Payer.name), Cdtr : Maybe(Payee.name),
     DbtrAcct : {Account("", Payer.account)},
     CdtrAcct : {Account("", Payee.account), Account("", Payee.clabe)}]

BrebSides(p) ==
    [codigoEntidad : {Entity("00000007")}, nombre : {p.name}, nit : Maybe(p.company),
     cc : Maybe(p.person), numeroCuenta : Maybe(Account("", p.account))]

BrebMessages ==
    [valor : Amounts, pagador : BrebSides(Payer), beneficiario : BrebSides(Payee),
     llave : {Account("", Payee.key)}]

NativeRails == Rails \ {"SPEI"}

Messages(rail) ==
    CASE rail = "PIX" -> PixMessages [] rail = "SWIFT_MT103" -> SwiftMessages
      [] rail = "ISO20022_MX" -> MxMessages [] rail = "ACH_NACHA" -> AchMessages
      [] rail = "FEDNOW" -> FednowMessages [] rail = "BRE_B" -> BrebMessages

----------------------------------------------------------------------------
(* Translator *)

requestToCanonical(rail, request, mapping) ==
    CASE rail = "PIX" -> pixRequestToCanonical(request, mapping)
      [] rail = "SPEI" -> speiToCanonical(request, mapping)
      [] rail = "BRE_B" -> brebRequestToCanonical(request)

toCanonical(rail, m) ==
    CASE rail = "PIX" -> pixToCanonical(m)
      [] rail = "SWIFT_MT103" -> swiftMt103ToCanonical(m)
      [] rail = "ISO20022_MX" -> iso20022MxToCanonical(m)
      [] rail = "ACH_NACHA" -> achNachaToCanonical(m)
      [] rail = "FEDNOW" -> fednowToCanonical(m)
      [] rail = "BRE_B" -> brebToCanonical(m)

fromCanonical(rail, c) ==
    CASE rail = "PIX" -> canonicalToPix(c)
      [] rail = "SPEI" -> canonicalToSpei(c)
      [] rail = "SWIFT_MT103" -> canonicalToSwiftMt103(c)
      [] rail = "ISO20022_MX" -> canonicalToIso20022Mx(c)
      [] rail = "ACH_NACHA" -> canonicalToAchNacha(c)
      [] rail = "FEDNOW" -> canonicalToFednow(c)
      [] rail = "BRE_B" -> canonicalToBreb(c)

LocalCurrency == [rail \in Rails |->
    CASE rail = "PIX" -> "BRL" [] rail = "SPEI" -> "MXN" [] rail = "BRE_B" -> "COP"
      [] rail = "ISO20022_MX" -> "EUR" [] OTHER -> "USD"]

normalizeCurrency(c) ==
    LET local == LocalCurrency[c.rail]
    IN  IF c.ccy = local THEN c
        ELSE [c EXCEPT !.fx = [rate |-> <<Rate[local], Rate[c.ccy]>>,
                               local |-> Cents((c.value * Rate[local]) \div Rate[c.ccy])]]

----------------------------------------------------------------------------

Init ==
    /\ route = "translate" /\ path = <<>> /\ stage = "idle"
    /\ first = None /\ message = None /\ canonical = None

Submit(r, rail, m) ==
    /\ stage = "idle"
    /\ route' = r /\ path' = <<rail>> /\ stage' = "received"
    /\ first' = m /\ message' = m
    /\ UNCHANGED canonical

\* POST /payments
SubmitPayment ==
    \E request \in Requests("payments") :
        Submit("payments", inferRail(request.debtor.alias), request)

\* POST /translate with the form of a payment
SubmitRequest ==
    \E rail \in ApiRails, request \in Requests("translate") :
        Submit("translate", rail, request)

\* POST /translate with a rail's own message
SubmitMessage ==
    \E rail \in NativeRails : \E m \in Messages(rail) : Submit("translate", rail, m)

IsRequest(m) == "creditor" \in DOMAIN m

Accept(c) ==
    /\ stage' = IF Valid(c) THEN "canonical" ELSE "rejected"
    /\ canonical' = c
    /\ message' = None
    /\ UNCHANGED <<route, path, first>>

\* A PIX or SPEI request needs the rows of mapping_table.
ReadRequest(mapping) ==
    /\ stage = "received" /\ IsRequest(message)
    /\ Accept(requestToCanonical(Current, message, mapping))

MappingUnavailable ==
    /\ stage = "received" /\ IsRequest(message) /\ Current # "BRE_B"
    /\ stage' = "rejected" /\ message' = None
    /\ UNCHANGED <<route, path, first, canonical>>

ReadMessage ==
    /\ stage = "received" /\ ~IsRequest(message)
    /\ Accept(toCanonical(Current, message))

\* Normalizer.normalize: only POST /payments calls it.
Normalize ==
    /\ stage = "canonical" /\ route = "payments"
    /\ canonical' = normalizeCurrency(canonical)
    /\ stage' = "normalized"
    /\ UNCHANGED <<route, path, first, message>>

Emit(rail) ==
    /\ IF route = "payments" THEN stage = "normalized"
                             ELSE stage = "canonical" /\ rail # Current
    /\ message' = fromCanonical(rail, canonical)
    /\ path' = Append(path, rail)
    /\ stage' = "emitted"
    /\ UNCHANGED <<route, first, canonical>>

\* The emitted message is handed in to POST /translate.  What the adapters of
\* PIX and SPEI get is no message any translator reads.
HandIn ==
    /\ stage = "emitted" /\ Len(path) <= MaxLegs /\ Current \notin {"PIX", "SPEI"}
    /\ route' = "translate" /\ stage' = "received"
    /\ UNCHANGED <<path, first, message, canonical>>

Next ==
    \/ SubmitPayment \/ SubmitRequest \/ SubmitMessage
    \/ \E mapping \in Mappings : ReadRequest(mapping)
    \/ MappingUnavailable
    \/ ReadMessage
    \/ Normalize
    \/ \E rail \in Rails : Emit(rail)
    \/ HandIn

Spec == Init /\ [][Next]_vars
=============================================================================
