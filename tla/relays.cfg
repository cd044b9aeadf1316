SPECIFICATION RelaysSpec
CONSTANTS
    Kinds = {"direct", "vless", "trojan", "shadowsocks", "vmess"}
    IdleTicks = 2
    ChunkLimit = 2
    MaxBytes = 2
    MaxQuiet = 5
    WindowBits = 2
    UdpKinds = {"direct", "ss", "ss2022", "ss2022-chain", "vless", "trojan", "vmess"}
    Sizes = {0, 2}
    MaxUp = 2
    MaxFrames = 2
    MaxPackets = 3
INVARIANTS ReportIsTrue IdleWindow InOrderUnlessDropped NoReplay
PROPERTY InboundCloseEnds
