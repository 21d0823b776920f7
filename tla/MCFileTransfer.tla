--------------------------- MODULE MCFileTransfer ---------------------------
EXTENDS FileTransfer, TLC
CONSTANTS n1, n2, f1, f2, f3
MCNodes == {n1, n2}
MCFiles == {f1, f2, f3}
\* f1 and f2 are shared by n1, f3 by n2.
MCOwner == f1 :> n1 @@ f2 :> n1 @@ f3 :> n2
Setup(wanted, big, unopenable, prompt) ==
  [wanted |-> wanted, big |-> big, unopenable |-> unopenable, prompt |-> prompt]
PromptAlone == {Setup({f1, f2}, {}, {}, TRUE)}
\* Prompt uploads of three files, and any uploads of two of which one is big.
MCSetups == {Setup(MCFiles, {}, {}, TRUE),
             Setup({f1, f3}, {f1}, {"meta", "data", "dest"}, FALSE)}
=============================================================================
