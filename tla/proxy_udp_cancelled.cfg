SPECIFICATION UdpSpec
CONSTANTS
    WindowBits = 2
    UdpKinds = {"vless", "trojan", "vmess"}
    Sizes = {0, 2}
    MaxUp = 2
    MaxFrames = 2
    MaxPackets = 3
INVARIANT FramesInOrder
