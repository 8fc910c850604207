--------------------------- MODULE MCCopyInitramfs ---------------------------
(***************************************************************************)
(* Small build systems: a merged /usr, where /lib is a link to usr, or      *)
(* none; two libraries that may need each other under either name, one of   *)
(* them perhaps absent or a link, to the other or to nothing; a directory   *)
(* that only the initramfs has.                                             *)
(***************************************************************************)
EXTENDS CopyInitramfs, TLC

CONSTANTS root, usr, a, b, lib, liba, libb, new, newf, none

MCNames == {root, usr, a, b, lib, liba, libb, new, newf}

MCUp == root :> root @@ usr :> root @@ a :> usr @@ b :> usr
        @@ lib :> root @@ liba :> lib @@ libb :> lib @@ new :> root @@ newf :> new

Ask(tries, must) == [tries |-> tries, must |-> must]

(* What library a asks for: b by the first of two directories that has it;  *)
(* or b as a required feature, and itself by the other name.                *)
ByEither == {Ask(<<libb, b>>, FALSE)}
Required == {Ask(<<b>>, TRUE), Ask(<<liba>>, FALSE)}
AsksOfB == {{Ask(<<a>>, FALSE)}, {Ask(<<liba, newf>>, FALSE)}}

Host(merged, kindB, asksA, asksB) ==
  LET own == root :> "dir" @@ usr :> "dir" @@ a :> "file"
             @@ b :> kindB @@ lib :> (IF merged THEN "link" ELSE "none")
      kind == own @@ liba :> (IF merged THEN own[a] ELSE "none")
                  @@ libb :> (IF merged THEN own[b] ELSE "none")
                  @@ new :> "none" @@ newf :> "none"
      real == [n \in MCNames |-> CASE merged /\ n = liba -> a
                                  [] merged /\ n = libb -> b
                                  [] OTHER -> n]
      asks == [n \in MCNames |->
                 CASE kind[n] = "none" -> {}
                   [] n = lib -> {Ask(<<usr>>, FALSE)}
                   [] real[n] = a -> asksA
                   [] real[n] = b -> asksB
                   [] OTHER -> {}]
      follow == [n \in MCNames |-> CASE merged /\ n = lib -> usr
                                    [] kind[n] = "link" /\ n # lib -> (CHOOSE ask \in asksB : TRUE).tries[1]
                                    [] OTHER -> real[n]]
  IN [real |-> real, follow |-> follow, kind |-> kind, asks |-> asks]

MCHosts == {Host(TRUE, "file", x, y) : x \in {ByEither, Required}, y \in AsksOfB}
             \cup {Host(TRUE, "link", x, {Ask(<<y>>, FALSE)}) : x \in {ByEither, Required}, y \in {a, newf}}
             \cup {Host(TRUE, "none", Required, {}), Host(FALSE, "file", ByEither, {Ask(<<a>>, FALSE)})}

=============================================================================
