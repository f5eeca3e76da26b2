----------------------------- MODULE BslHeader -----------------------------
(***************************************************************************)
(* The header of a stream's frames (bsl_makeHeader and the functions of    *)
(* makeHeader_f_ptr) and where in it the FPGA is told to find the fields   *)
(* that it changes (the distances of bsl_device_setStreamDetail).  What a  *)
(* field contains is left out: a header is the set of the fields that are  *)
(* in it, with the places they were written to.  A field that something    *)
(* else was written over, in whole or in part, is no longer in it.         *)
(***************************************************************************)
EXTENDS Integers, Sequences

HeaderRoom == 200  \* LENGTH_HEADER_RESERVE, and NUM_PHIR registers of 8 bytes
IslSize == 26      \* sizeof( T_Isl )
Ip6Size == 40      \* sizeof( T_Ip6 )
TypeSize == 2      \* SIZE_ETHER_TYPE
Undefined == -1

(* The records of a stream, by layer: the bits of type beyond 16 mean a    *)
(* frame without ether type; hlen and words count 32 bit words; opts is    *)
(* the length of the options' record; next the lengths of the records of   *)
(* the IPv6 next headers; type the type of an ICMP message; override says  *)
(* that the client gave a checksum.                                        *)
Layers ==
  [eth : {"none", "typed", "typeless"},
   tag : {"none", "vlan", "vlan2", "mpls", "mpls2", "isl"},
   l3 : [kind : {"none", "arp", "ip4", "ip6", "ip4overip6", "ip6overip4"},
         hlen : 5 .. 16, opts : Nat, next : Seq(Nat), override : BOOLEAN],
   l4 : [kind : {"none", "tcp", "udp", "icmp", "igmp"},
         words : 5 .. 15, opts : Nat, type : Nat, override : BOOLEAN]]

HasIp4(l) == l.l3.kind \in {"ip4", "ip4overip6", "ip6overip4"}
HasIp6(l) == l.l3.kind \in {"ip6", "ip4overip6", "ip6overip4"}
HasPorts(l) == l.l4.kind \in {"tcp", "udp"}

(* SumTo(lengths)[k] adds the first k. *)
SumTo(lengths) ==
  LET sum[k \in 0 .. Len(lengths)] == IF k = 0 THEN 0 ELSE sum[k - 1] + lengths[k]
  IN sum

(* The bytes of the records of layers 3 and 4, as the client sends them,   *)
(* where they may be more than a hundred.                                  *)
Ip4Record(l) == 88 + IF l.l3.opts = 0 THEN 0 ELSE 4 + l.l3.opts
Ip6Record(l) == 88 + 4 * Len(l.l3.next) + SumTo(l.l3.next)[Len(l.l3.next)]
Layer3Record(l) ==
  CASE l.l3.kind = "none" -> 0
    [] l.l3.kind = "arp" -> 96
    [] l.l3.kind = "ip4" -> Ip4Record(l)
    [] l.l3.kind = "ip6" -> Ip6Record(l)
    [] OTHER -> 8 + Ip4Record(l) + 8 + Ip6Record(l)
Layer4Record(l) == IF l.l4.kind = "tcp" THEN 92 + l.l4.opts ELSE 48

(* The fields of each header. *)
Bytes(name, first, size) == [name |-> name, first |-> first, size |-> size]

EthernetFields == {Bytes("dest", 0, 6), Bytes("src", 6, 6)}
TypeField == Bytes("type", 12, TypeSize)
Ip4Fields ==
  {Bytes("ip4", 0, 4), Bytes("ip4id", 4, 2), Bytes("flags", 6, 2), Bytes("ttl", 8, 2),
   Bytes("ip4chksum", 10, 2), Bytes("ip4sip", 12, 4), Bytes("ip4dip", 16, 4)}
Ip6Fields == {Bytes("ip6", 0, 8), Bytes("ip6sip", 8, 16), Bytes("ip6dip", 24, 16)}
UdpFields ==
  {Bytes("sport", 0, 2), Bytes("dport", 2, 2), Bytes("udp", 4, 2), Bytes("l4chksum", 6, 2)}
TcpFields ==
  {Bytes("sport", 0, 2), Bytes("dport", 2, 2), Bytes("tcp", 4, 12), Bytes("l4chksum", 16, 2),
   Bytes("urgent", 18, 2)}
IgmpFields == {Bytes("igmp", 0, 2), Bytes("l4chksum", 2, 2), Bytes("group", 4, 4)}
IcmpFields == {Bytes("icmp", 0, 2), Bytes("l4chksum", 2, 2), Bytes("data", 4, 4)}
TagSize == 4    \* sizeof( T_802_1Q_VLANTag )
LabelSize == 4  \* sizeof( T_Mpls )
ArpSize == 28   \* sizeof( T_Arp )

-----------------------------------------------------------------------------
(* len is headerLength; tag, l3 and l4 are the offsets of the layers.      *)
Blank == [len |-> 0, put |-> {}, tag |-> 0, l3 |-> 0, l4 |-> 0]

Apart(f, g) == f.first + f.size <= g.first \/ g.first + g.size <= f.first

(* Fields written at a place, which do not overlap each other. *)
Lay(h, at, fields) ==
  LET new == {[f EXCEPT !.first = at + @] : f \in fields}
  IN [h EXCEPT !.put = {f \in @ : \A g \in new : Apart(f, g)} \cup new]

Advance(h, n) == [h EXCEPT !.len = @ + n]

Ethernet(l, h) ==
  CASE l.eth = "none" -> h
    [] l.eth = "typed" ->
         Advance(Lay(h, h.len, EthernetFields \cup {TypeField}), 14)
    [] l.eth = "typeless" -> Advance(Lay(h, h.len, EthernetFields), 12)

(* A VLAN tag takes the place of the two bytes before it, which it takes   *)
(* for the ether type and moves behind it.                                 *)
TypeBefore(h) ==
  IF Bytes("type", h.len - TypeSize, TypeSize) \in h.put
  THEN "type" ELSE "bytes"

(* VlanTag as it would be if the tag were put behind the ether type. *)
VlanTag_Behind(h, name, etype) == Advance(Lay(h, h.len, {Bytes(name, 0, TagSize)}), TagSize)

VlanTag(h, name, etype) ==
  Advance(Lay(h, h.len - TypeSize, {Bytes(name, 0, TagSize), Bytes(etype, TagSize, TypeSize)}),
          TagSize)

Vlan(l, h) ==
  LET etype == TypeBefore(h)
      one == VlanTag([h EXCEPT !.tag = h.len - TypeSize], "vlan", etype)
  IN IF l.tag = "vlan" THEN one ELSE VlanTag(one, "vlan2", etype)

Label(h, name) == Advance(Lay(h, h.len, {Bytes(name, 0, LabelSize)}), LabelSize)
Mpls(l, h) == IF l.tag = "mpls" THEN Label(h, "label") ELSE Label(Label(h, "label"), "label2")

Isl(l, h) ==
  IF l.tag = "isl"
  THEN Advance(Lay([h EXCEPT !.tag = 0], h.len, {Bytes("isl", 0, IslSize)}), IslSize)
  ELSE h

Tag(l, h) ==
  CASE l.tag \in {"vlan", "vlan2"} -> Vlan(l, h)
    [] l.tag \in {"mpls", "mpls2"} -> Mpls(l, h)
    [] OTHER -> h

(* Options are copied only when their record fits hlen; a length that does *)
(* not fit its four bits becomes 5.                                        *)
Words(l) == IF l.l3.hlen > 15 THEN 5 ELSE l.l3.hlen
Ip4FromPdr(l, h) ==
  LET fits == Words(l) > 5 /\ l.l3.opts = 4 * (Words(l) - 5)
      options == IF fits THEN {Bytes("options", 20, l.l3.opts)} ELSE {}
  IN Advance(Lay(h, h.len, Ip4Fields \cup options), 4 * Words(l))

(* The place of a next header is moved by the length of the record after   *)
(* the one that was copied.                                                *)
NextHeader(l, k) ==
  Bytes("next", Ip6Size + SumTo(l.l3.next)[k] - l.l3.next[1], l.l3.next[k])
NextHeaders(l) ==
  LET all == DOMAIN l.l3.next
      Over(j, k) == j > k /\ ~Apart(NextHeader(l, j), NextHeader(l, k))
  IN {NextHeader(l, k) : k \in {k \in all : \A j \in all : ~Over(j, k)}}

Ip6FromPdr(l, h) ==
  Advance(Lay(h, h.len, Ip6Fields \cup NextHeaders(l)),
          Ip6Size + SumTo(l.l3.next)[Len(l.l3.next)])

(* The offset of IPv4 in IPv6 is not set. *)
Ip4OverIp6(l, h) == Ip4FromPdr(l, Ip6FromPdr(l, h))
Ip6OverIp4(l, h) == Ip6FromPdr(l, Ip4FromPdr(l, [h EXCEPT !.l3 = h.len]))
Arp(h) == Advance(Lay([h EXCEPT !.l3 = h.len], h.len, {Bytes("arp", 0, ArpSize)}), ArpSize)

Layer3(l, h) ==
  CASE l.l3.kind = "none" -> h
    [] l.l3.kind = "arp" -> Arp(h)
    [] l.l3.kind = "ip4" -> Ip4FromPdr(l, [h EXCEPT !.l3 = h.len])
    [] l.l3.kind = "ip6" -> Ip6FromPdr(l, [h EXCEPT !.l3 = h.len])
    [] l.l3.kind = "ip4overip6" -> Ip4OverIp6(l, h)
    [] l.l3.kind = "ip6overip4" -> Ip6OverIp4(l, h)

(* TCP options are copied whatever words says. *)
Tcp(l, h) ==
  LET options == IF l.l4.opts > 0 THEN {Bytes("tcpoptions", 20, l.l4.opts)} ELSE {}
  IN Advance(Lay(h, h.len, TcpFields \cup options), 4 * l.l4.words)

Udp(h) == Advance(Lay(h, h.len, UdpFields), 8)

(* Messages with an identifier and a sequence number.  The data of another *)
(* message lies behind the header's end.                                   *)
HasData(l) == l.l4.type \in {0, 8} \cup 13 .. 18
Icmp(l, h) == Advance(Lay(h, h.len, IcmpFields), IF HasData(l) THEN 8 ELSE 4)

Igmp(h) == Advance(Lay(h, h.len, IgmpFields), 8)

Layer4(l, g) ==
  LET h == [g EXCEPT !.l4 = g.len]
  IN CASE l.l4.kind = "none" -> g
       [] l.l4.kind = "tcp" -> Tcp(l, h)
       [] l.l4.kind = "udp" -> Udp(h)
       [] l.l4.kind = "icmp" -> Icmp(l, h)
       [] l.l4.kind = "igmp" -> Igmp(h)

(* MakeHeader as it would be with the ISL header behind the Ethernet one. *)
MakeHeader_IslLast(l) == Layer4(l, Layer3(l, Tag(l, Isl(l, Ethernet(l, Blank)))))

MakeHeader(l) == Layer4(l, Layer3(l, Tag(l, Ethernet(l, Isl(l, Blank)))))

-----------------------------------------------------------------------------
(* get_ip4hlen, get_ip6hlen: the latter counts the records of next headers *)
(* without their own length field, and reads on behind the last one.       *)
Ip4Length(l) == 4 * Words(l)
Ip6Length(l) == IF l.l3.next = <<>> THEN Ip6Size ELSE Undefined

(* makeChksumL4: where the source address of the pseudo header is read,    *)
(* and how much of the layer's header is summed.  There is no checksum     *)
(* record of IGMP: the process dies of the null pointer.                   *)
DiesOfChecksum(l) == l.l4.kind = "igmp"

PseudoAt(l, h) ==
  CASE l.l3.kind = "ip4" -> h.l3 + 12
    [] l.l3.kind = "ip6" -> h.l3 + 8
    [] l.l3.kind = "ip6overip4" -> h.l3 + Ip4Length(l) + 8
    [] l.l3.kind = "ip4overip6" -> h.l3 + Ip6Length(l) + 12
    [] OTHER -> Undefined

Summed(l) ==
  CASE l.l4.kind = "tcp" -> 20
    [] l.l4.kind = "udp" -> 8
    [] l.l4.kind = "icmp" -> IF HasData(l) THEN 8 ELSE 4
    [] OTHER -> 0

(* get_ip4_pdr takes the layer 4 record for that of IPv6 in IPv4, and dies *)
(* when there is none.                                                     *)
DiesOfIp4Pdr(l) == l.l3.kind = "ip6overip4" /\ l.l4.kind = "none"

MacDistances(l) == IF l.eth = "none" THEN {} ELSE {<<"dest", IF l.tag = "isl" THEN IslSize ELSE 0>>}

Ip6Distances(l, h) ==
  IF ~HasIp6(l) THEN {}
  ELSE {<<"ip6sip", h.l3 + 8 + IF l.l3.kind = "ip6overip4" THEN Ip4Length(l) ELSE 0>>}

Ip4Distances(l, h) ==
  IF ~HasIp4(l) THEN {}
  ELSE LET at == h.l3 + 10 + IF l.l3.kind = "ip4overip6" THEN Ip6Length(l) ELSE 0
       IN {<<"ip4chksum", at>>, <<"ip4sip", at + 2>>, <<"ip4id", h.l3 + 4>>}

PortDistances(l, h) ==
  IF ~HasPorts(l) THEN {}
  ELSE {<<"sport", h.l4>>, <<"l4chksum", h.l4 + IF l.l4.kind = "udp" THEN 6 ELSE 16>>}

Distances(l, h) ==
  {<<d[1], d[2] % 256>> : d \in MacDistances(l) \cup Ip6Distances(l, h)
                                \cup Ip4Distances(l, h) \cup PortDistances(l, h)}

(* The bits of PACR for the fields that the FPGA fills in or changes, when *)
(* the payload is not one that was downloaded.                             *)
Marks(l) ==
  (IF l.eth # "none" THEN {"dest", "src"} ELSE {})
  \cup (IF HasIp6(l) THEN {"ip6sip", "ip6dip"} ELSE {})
  \cup (IF HasIp4(l) THEN {"ip4sip", "ip4dip"} ELSE {})
  \cup (IF HasIp4(l) /\ ~l.l3.override THEN {"ip4chksum"} ELSE {})
  \cup (IF HasPorts(l) THEN {"sport", "dport"} ELSE {})
  \cup (IF l.l4.kind \in {"tcp", "udp", "icmp"} /\ l.l4.override THEN {} ELSE {"l4chksum"})

-----------------------------------------------------------------------------
(* What a header is meant to be, for records that agree with themselves.   *)
Consistent(l) ==
  /\ l.eth # "typed" => l.tag \notin {"vlan", "vlan2"}
  /\ HasIp4(l) => l.l3.hlen <= 15 /\ l.l3.opts = 4 * (l.l3.hlen - 5)
  /\ l.l4.opts = IF l.l4.kind = "tcp" THEN 4 * (l.l4.words - 5) ELSE 0
  /\ \A i, j \in DOMAIN l.l3.next : l.l3.next[i] = l.l3.next[j]

Labels(l) == CASE l.tag = "mpls" -> LabelSize [] l.tag = "mpls2" -> 2 * LabelSize [] OTHER -> 0

Sent(h) == {f \in h.put : f.first < h.len}
Filled(h) == UNION {f.first .. f.first + f.size - 1 : f \in Sent(h)}
At(h, name, first) == \E f \in h.put : f.name = name /\ f.first = first
=============================================================================
