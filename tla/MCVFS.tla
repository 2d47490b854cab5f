------------------------------- MODULE MCVFS -------------------------------
(* Two names, one absolute and one that depends on the working directory;  *)
(* room for one name besides "." and ".." in each directory.               *)
EXTENDS VFS

P(abs, names) == [abs |-> abs, names |-> names]
MCPaths == {P(TRUE, <<"a">>), P(FALSE, <<"b">>)}
O(access, append, creat) == [access |-> access, append |-> append, creat |-> creat]
MCOpenFlags == {O("O_RDONLY", TRUE, FALSE), O("O_RDWR", FALSE, TRUE)}
=============================================================================
