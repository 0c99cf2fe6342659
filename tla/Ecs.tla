--------------------------------- MODULE Ecs ---------------------------------
(***************************************************************************)
(* The subnet that is sent along with queries (ecs.rs): parsed from the    *)
(* configuration and masked to its prefix, in the arithmetic of the        *)
(* address's width.                                                        *)
(*                                                                         *)
(* A word is the set of the places of its one bits: 0 is {}, and x & y is  *)
(* the intersection of x and y.                                            *)
(***************************************************************************)
EXTENDS Integers

CONSTANT Bits   \* the width of an address of each family: 32 and 128

ASSUME EcsAssumption == Bits \in [{"v4", "v6"} -> Nat \ {0}]

Word(w) == SUBSET (0..(w - 1))
NoSubnet == [family |-> "none", addr |-> {}, prefix |-> 0]
Subnet ==
  {NoSubnet} \cup [family : {"v4"}, addr : Word(Bits["v4"]), prefix : Nat]
             \cup [family : {"v6"}, addr : Word(Bits["v6"]), prefix : Nat]

\* MAX << n, of w bits; the program must not shift by w, and in a build
\* without overflow checks that is a shift by 0.
ShiftedMax(n, w) == {b \in 0..(w - 1) : b >= n % w}

\* Mutant: prefix 0 is not told apart.
mask_ipShifted(family, addr, prefix) ==
  [family |-> family, prefix |-> prefix,
   addr |-> addr \cap ShiftedMax(Bits[family] - prefix, Bits[family])]

mask_ip(family, addr, prefix) ==
  LET mask == IF prefix = 0 THEN {} ELSE ShiftedMax(Bits[family] - prefix, Bits[family])
  IN  [family |-> family, addr |-> addr \cap mask, prefix |-> prefix]

\* parse_subnet and subnet_from_config: what cannot be a subnet is none.
subnet_from_config(s) ==
  IF s.family = "none" \/ s.prefix > Bits[s.family] THEN NoSubnet
  ELSE mask_ip(s.family, s.addr, s.prefix)

\* The reference: the first bits of the address, and zeros.
Network(s) ==
  [family |-> s.family, addr |-> {b \in s.addr : b >= Bits[s.family] - s.prefix},
   prefix |-> s.prefix]
=============================================================================
