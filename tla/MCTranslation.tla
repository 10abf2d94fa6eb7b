---------------------------- MODULE MCTranslation ----------------------------
(***************************************************************************)
(* An instance of the translators for TLC: two parties whose identifiers   *)
(* are as long as real ones, amounts that are rounded down, up, to nothing *)
(* and not at all.                                                         *)
(***************************************************************************)
EXTENDS TranslationProperties

MCPayer == [name |-> "payer", account |-> "payer account", iban |-> "payer iban",
            clabe |-> "payer clabe", key |-> "payer key", person |-> "payer cpf",
            company |-> "payer nit"]
MCPayee == [name |-> "payee", account |-> "payee account", iban |-> "payee iban",
            clabe |-> "payee clabe", key |-> "payee key", person |-> "payee cpf",
            company |-> "payee nit"]

FieldLength == [name |-> 12, account |-> 10, iban |-> 22, clabe |-> 18, key |-> 36,
                person |-> 11, company |-> 11]

MCLength ==
    [i \in Payers \cup Payees \cup Placeholders |->
        IF \E f \in Fields : i \in {Payer[f], Payee[f]}
        THEN FieldLength[CHOOSE f \in Fields : i \in {Payer[f], Payee[f]}]
        ELSE CASE i = "" -> 0 [] i \in {"acc-PMT", "recv-PMT"} -> 34
               [] i = "1234567890" -> 10 [] i = "MIPIT" -> 5 [] OTHER -> 7]

MCRate == [c \in Currencies |-> CASE c = "BRL" -> 5 [] c = "MXN" -> 17
                                  [] c = "COP" -> 4000 [] OTHER -> 1]
=============================================================================
