----------------------------- MODULE VnsLayouts -----------------------------
(***************************************************************************)
(* The messages between sr and the bridge in the controller.  The bridge   *)
(* has them in pox_module/cs561/VNSProtocol.py, sr in router/vnscommand.h: *)
(* what one side writes with its own definition, the other reads with its  *)
(* own.  A layout here is written by the side that sends the message, and  *)
(* read by the other one; the names are those of the Python side.          *)
(***************************************************************************)
EXTENDS Layout

IDSIZE == 32
VnsHeader == <<L("mLen"), L("mType")>>

\* length is what length() says of the part behind the header, to which the
\* protocol library (external) adds the header; sr computes sizeof itself.
VnsMessage(fs, reads, size, length, tail) ==
    Class(VnsHeader \o fs, At(0, VnsHeader) \cup reads, size, size, length, tail)

-----------------------------------------------------------------------------
(* From sr to the bridge.                                                  *)

VNSOpen ==
    LET ids == <<S("vhost", IDSIZE), S("user", IDSIZE), S("pw", IDSIZE)>> IN
    VnsMessage(<<H("topo_id"), Pad(2)>> \o ids,
               At(8, <<H("topo_id"), Pad(2)>> \o ids), 108, 108, "none")

\* The user's name is as long as its length field says; the digest is the rest.
UsernameLen == 5
VNSAuthReply ==
    LET fs == <<L("username_len"), S("username", UsernameLen), S("ssp", 20)>> IN
    VnsMessage(fs, At(8, fs), 12, 12 + UsernameLen + 20, "none")

\* sr asks for a template without source filters: nothing follows.
VNSOpenTemplate ==
    LET fs == <<S("template_name", 30), S("vrhost", IDSIZE)>> IN
    VnsMessage(fs, At(8, fs), 70, 70, "none")

VNSPacketFromSr ==
    VnsMessage(<<S("intf_name", 16)>>, {Place("intf_name", 8, 16)}, 24, Computed, "data")

-----------------------------------------------------------------------------
(* From the bridge to sr.                                                  *)

VNSPacket ==
    VnsMessage(<<S("intf_name", 16)>>, {Place("intf_name", 8, 16)}, 24, Computed, "data")

VNSClose == VnsMessage(<<S("msg", 256)>>, {Place("msg", 8, 256)}, 264, 264, "none")
VNSBanner == VnsMessage(<<S("msg", 256)>>, {Place("msg", 8, 256)}, 264, 264, "none")

\* An interface is six entries of a key and a value; sr walks an array of
\* entries of 4 + 32 octets and takes the value by its key.
VNSInterface ==
    LET Entry(k, v, w) == <<L(k), S(v, w), Pad(32 - w)>>
        Reads(i, k, v, w) == {Place(k, 36 * i, 4), Place(v, 36 * i + 4, w)} IN
    Item(Entry("HWINTERFACE", "name", 32) \o Entry("HWSPEED", "speed", 4)
             \o Entry("HWETHER", "mac", 32) \o Entry("HWETHIP", "ip", 4)
             \o Entry("HWSUBNET", "subnet", 4) \o Entry("HWMASK", "mask", 4),
         Reads(0, "HWINTERFACE", "name", 32) \cup Reads(1, "HWSPEED", "speed", 4)
             \cup Reads(2, "HWETHER", "mac", 32) \cup Reads(3, "HWETHIP", "ip", 4)
             \cup Reads(4, "HWSUBNET", "subnet", 4) \cup Reads(5, "HWMASK", "mask", 4),
         216, 216, 216)

VNSHardwareInfo == VnsMessage(<<>>, {}, 8, Computed, "body")

VNSRtable ==
    VnsMessage(<<S("vrhost", IDSIZE)>>, {Place("vrhost", 8, IDSIZE)}, 40, Computed, "data")

VNSAuthRequest == VnsMessage(<<>>, {}, 8, Computed, "data")
VNSAuthStatus == VnsMessage(<<B("auth_ok")>>, {Place("auth_ok", 8, 1)}, 9, Computed, "data")
=============================================================================
