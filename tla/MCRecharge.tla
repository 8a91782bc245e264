----------------------------- MODULE MCRecharge -----------------------------
(* Instances of WalletRecharge: amounts that do and do not cover each other. *)
EXTENDS WalletRecharge, TLC

CONSTANTS r1, r2, r3, e1, e2, w1, w2

Everything == {"approve", "link", "verify", "decline", "reverse", "cancel", "delete", "import"}

Amounts == (r1 :> 2) @@ (r2 :> 1) @@ (r3 :> 2)
EntryAmounts == (e1 :> 2)
InDebt == -1

WorkerSymmetry == Permutations({w1, w2})

=============================================================================
