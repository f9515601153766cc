------------------------------ MODULE MCWallet ------------------------------
(***************************************************************************)
(* The two halves of the wallet that are modelled, in one run.  They share *)
(* no state: a behaviour is one of the key pool or one of the database     *)
(* environment, and the other half stays as it starts.                     *)
(***************************************************************************)
EXTENDS KeyPool, DBEnv

VARIABLE part

walletVars == <<part, keyVars, dbVars>>

WalletInit == part \in {"keys", "files"} /\ KeyPoolInit /\ DBEnvInit

WalletNext ==
    \/ part = "keys" /\ KeyPoolNext /\ UNCHANGED <<part, dbVars>>
    \/ part = "files" /\ DBEnvNext /\ UNCHANGED <<part, keyVars>>

WalletSpec == WalletInit /\ [][WalletNext]_walletVars

\* Types, and no key is lost: not from the backup (BackupWallet) and not from the
\* files while the wallet is rewritten (CDB::Rewrite).
FilesWhole == KeyPoolTypeOK /\ DBEnvTypeOK /\ BackupWhole /\ KeysOnDisk
=============================================================================
