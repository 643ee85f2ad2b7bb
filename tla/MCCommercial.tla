---------------------------- MODULE MCCommercial ----------------------------
(***************************************************************************)
(* Values for the constants of Commercial: one record of every type, each  *)
(* looked at alone, and a payment application with its certificate and the *)
(* tax invoice of that, looked at together.                                *)
(***************************************************************************)
EXTENDS Kpis, TLC

CONSTANTS ipa, ipc, ti, vo, co, cp, letter, notice, claim, charge, vc, fa,
          application, certificate, invoice, q1, q2

Singles == {ipa, ipc, ti, vo, co, cp, letter, notice, claim, charge, vc, fa}

AllRecords == Singles \cup {application, certificate, invoice}

OneOfEach ==
    ipa :> "ipa" @@ ipc :> "ipc" @@ ti :> "ti" @@ vo :> "vo" @@ co :> "co" @@ cp :> "cp"
    @@ letter :> "letter" @@ notice :> "notice" @@ claim :> "claim" @@ charge :> "back_charge"
    @@ vc :> "vc" @@ fa :> "fa"

Chain == application :> "ipa" @@ certificate :> "ipc" @@ invoice :> "ti"

TypeOfRecords == OneOfEach @@ Chain

\* On its own a certificate or an invoice has a parent outside the model.
Parents ==
    certificate :> application @@ invoice :> certificate
    @@ [r \in Singles \cup {application} |-> NoRecord]

\* The total of an invoice looked at with its parents is edited between two values.
Amounts == ti :> {1} @@ invoice :> {1, 2} @@ [r \in AllRecords |-> {0}]

\* The requests are interchangeable.
RequestSymmetry == Permutations(Requests)

=============================================================================
