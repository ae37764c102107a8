----------------------------- MODULE MCProfile ------------------------------
(* Routers and profiles for the runs of Profile: addresses of 4 bits, the  *)
(* subnets 0-7 and 8-15; two hosts, one interface and one radio.           *)
EXTENDS Profile

NetOf(ip, start, stop) == [ip |-> ip, mask |-> 3, start |-> start, stop |-> stop, on |-> TRUE]
Bind(mac, name, ip) == [mac |-> mac, name |-> name, ip |-> ip]
Qualified(host, suffix) == [labels |-> <<host, suffix>>]
Both(host, suffix) == <<BareName(host), Qualified(host, suffix)>>
Deep == [labels |-> <<"a", "pi", "home">>]      \* two labels before the domain
Underscore == BareName("my_tv")                  \* no name for ValidateName
V6 == 99                                         \* stands for an address of IPv6

Wifi(ssid, key, enabled, channel) ==
  [x \in {"ra0", "radio0"} |-> IF x = "ra0" THEN [ssid |-> ssid, key |-> key, enabled |-> enabled]
                               ELSE [channel |-> channel]]

\* A factory router; one in use on the same subnet; one in use on the other, with a name
\* that Lookup does not find and an entry, added by hand, that Set would turn down.
Factory == [net |-> NetOf(1, 3, 4), binds |-> {}, file |-> EmptyFile(NoDomain),
            wifi |-> Wifi("gl", "k0", "true", "1"), wired |-> TRUE]
Used == [net |-> NetOf(1, 3, 5), binds |-> {Bind("m1", "nas", 2), Bind("m2", "tv", 6)},
         file |-> [domain |-> <<"lab">>,
                   entries |-> <<[ip |-> 2, names |-> Both("nas", "lab")],
                                 [ip |-> 6, names |-> <<Qualified("tv", "lab"), BareName("box")>>]>>],
         wifi |-> Wifi("lab", "k1", "true", "6"), wired |-> FALSE]
Moved == [net |-> NetOf(9, 11, 13), binds |-> {Bind("m1", "nas", 10)},
          file |-> [domain |-> <<"home">>,
                    entries |-> <<[ip |-> 10, names |-> Both("nas", "home")],
                                  [ip |-> 14, names |-> <<Deep>>]>>],
          wifi |-> Wifi("home", "k2", "false", "6"), wired |-> TRUE]
ByHand == [Moved EXCEPT !.net = NetOf(1, 3, 4), !.binds = {},
             !.file.entries = <<[ip |-> V6, names |-> <<BareName("nas")>>],
                                [ip |-> 2, names |-> <<Underscore, BareName("tv")>>]>>]
SomeSettings ==
  [x \in {"ra0", "radio0"} |-> IF x = "ra0" THEN {"ssid", "key", "enabled"} ELSE {"channel"}]
SomeRouters == {Factory, Used, Moved, ByHand}
RejectedNames == {Underscore, BareName("my_lan")}

\* An empty profile but for the network; one with all sections, an entry that is turned
\* down, settings left out and a device nobody has; one whose pool is out of its subnet; one
\* with a reservation and no domain; one whose domain is turned down; one with a name that
\* Lookup will not find.
Bare == [net |-> NetOf(1, 3, 5), domain |-> NoDomain, hosts |-> <<>>, binds |-> {}, wifi |-> {}]
Full == [net |-> NetOf(1, 3, 5), domain |-> <<"lab">>,
         binds |-> {Bind("m1", "nas", 6), Bind("m2", "tv", 2)},
         hosts |-> <<[ip |-> 6, names |-> Both("nas", "lab")], [ip |-> 3, names |-> <<Underscore>>],
                     [ip |-> 2, names |-> <<BareName("tv")>>]>>,
         wifi |-> {[device |-> "ra0", settings |-> [ssid |-> "lab", key |-> NoSetting,
                                                    enabled |-> NoSetting]],
                   [device |-> "ra9", settings |-> [ssid |-> "lab", key |-> "k9"]]}]
DeepNames == [Bare EXCEPT !.domain = <<"home">>, !.hosts = <<[ip |-> 4, names |-> <<Deep>>]>>]
SomeProfiles ==
  {Bare, Full, DeepNames, [Full EXCEPT !.net = NetOf(1, 3, 9)], [Full EXCEPT !.domain = NoDomain],
   [Full EXCEPT !.domain = <<"my_lan">>]}

SomeModes ==
  {[dry |-> FALSE, force |-> f, wireless |-> w] : f, w \in BOOLEAN}
    \cup {[dry |-> TRUE, force |-> FALSE, wireless |-> TRUE]}
=============================================================================
